---- MODULE Spec2Model ----
(***************************************************************************)
(* SnapFileThing backend: the folder/file metadata store                   *)
(* (services/folder_manager.rs) and the JWT service (handlers/auth.rs).    *)
(*                                                                         *)
(* Spec            the store, every FolderManager call run to completion   *)
(* SpecFiles       the same with two files, the reads and the clock        *)
(* SpecConc        the store, calls interleaved at their file accesses     *)
(* SpecMoves       the store, move_folder calls interleaved                *)
(* SpecIO          reads beside a write that truncates the file first      *)
(* SpecAnyTable    move_folder and list_folder_contents on any table       *)
(* SpecAuth        the JWT service and the auth handlers                   *)
(* SpecRevoke      the same, and blacklist_token called with any token     *)
(* SpecRotate      refresh requests interleaved at the blacklist's lock    *)
(* SpecLimit       the static server and its per-worker rate limiters      *)
(* SpecLimitConfig the static server under any rate-limit configuration    *)
(* SpecRoute       the route type of any path                              *)
(* SpecClient      the client address of any request                       *)
(* SpecWeb         the web server: authentication, rate limit, handler     *)
(* SpecGuard       the web server's handlers that change the store         *)
(***************************************************************************)
EXTENDS Integers, FiniteSets, Sequences, TLC

\* ---------------------------------------------------------------- bounds
\* number of UUIDs Uuid::new_v4 hands out in one run
MaxIds == 3
\* number of requests started in one run of SpecConc
MaxReqs == 3
\* number of requests the server runs at the same time (spawn_blocking threads)
NProc == 2
\* number of clock advances in one run
MaxTicks == 2
\* number of tokens issued in one run of SpecAuth
MaxTokens == 4
\* number of worker threads of an HttpServer (its default is the number of cores)
NWorkers == 2
\* number of requests in one run of SpecLimit
MaxChecks == 4
\* number of requests in one run of SpecWeb
MaxWebReqs == 3
\* number of FolderManager calls in one run of SpecFiles
MaxCalls == 4
\* number of pieces in a request path of SpecRoute
MaxPieces == 4
\* number of tokens issued in one run of SpecRotate
MaxRotateTokens == 6
\* number of revoked tokens up to which SpecRevoke calls blacklist_token by itself
MaxRevokes == 2
\* number of pieces in the value of a forwarding header of SpecClient
MaxHeaderLen == 3

\* ---------------------------------------------------------------- values
\* Option::None for parent_id / folder_id
None == 0
Ids == 1..MaxIds
OptIds == {None} \cup Ids
Names == {"Invoices", "archive"}
FileNames == {"a.png", "b.png"}
Sizes == {1024, 2048}
\* the file inputs of Spec
SeqFileNames == {"a.png"}
SeqSizes == {1024}
Procs == 1..NProc
Workers == 1..NWorkers
\* client addresses, as get_client_ip reads them
Clients == {"10.0.0.1", "10.0.0.2"}
\* the client of SpecWeb
WebClients == {"10.0.0.1"}

\* AppError variants the store returns, with the message that tells two
\* BadRequest results apart
Ok == [kind |-> "Ok", msg |-> ""]
NotFound(m) == [kind |-> "NotFound", msg |-> m]
BadRequest(m) == [kind |-> "BadRequest", msg |-> m]
Internal(m) == [kind |-> "Internal", msg |-> m]
\* the call never returns
Diverges == [kind |-> "Diverges", msg |-> ""]

VARIABLES
    folders,    \* .folder_metadata.json : folder id -> FolderMetadata
    files,      \* .file_metadata.json   : filename  -> FileMetadata
    uuids,      \* how many UUIDs have been generated
    last,       \* Spec: the last completed call, its arguments, result and pre-state
    req,        \* SpecConc: the request each worker is running
    started,    \* SpecConc: number of requests started
    base,       \* SpecConc: tables when the running batch of requests began
    batch,      \* SpecConc: the requests of the batch that returned Ok
    torn,       \* SpecIO: the table files fs::write has truncated and not yet filled
    blacklist,  \* JwtService::blacklist : the token strings blacklisted
    issued,     \* the tokens the service has handed out
    jtis,       \* how many token ids (jti) have been generated
    now,        \* Utc::now(), in seconds since the service started
    ticks,      \* number of clock advances
    revoked,    \* the tokens blacklist_token has been called on
    rotated,    \* the refresh tokens that a successful refresh consumed
    lastAuth,   \* SpecAuth: the last completed auth request and its response
    limiters,   \* per worker: RateLimitMiddleware::limiters, route type -> (ip -> state)
    seen,       \* (route type, ip) -> when first asked for, how many admitted, and
                \* how many of them at the instant of the latest request
    checks,     \* SpecLimit: number of requests made
    reqs,       \* SpecWeb: number of requests made
    lastReq,    \* the last request to a server and what became of it
    calls,      \* SpecFiles: number of FolderManager calls made
    reference   \* per worker: the limiters of a server with every rule enabled

storeVars == <<folders, files, uuids, last>>
concVars == <<req, started, base, batch, torn>>
authVars == <<blacklist, issued, jtis, now, ticks, revoked, rotated, lastAuth>>
limitVars == <<limiters, seen, checks, reqs, lastReq>>

\* ------------------------------------------------------ FolderManager (pure)
FolderMetadata(id, name, parent_id, created_at) ==
    [id |-> id, name |-> name, parent_id |-> parent_id, created_at |-> created_at]
FileMetadata(filename, folder_id, uploaded_at, size) ==
    [filename |-> filename, folder_id |-> folder_id, uploaded_at |-> uploaded_at,
     size |-> size]

\* models::FolderInfo: a folder with its counts and the size of its files
FolderInfo(id, name, parent_id, file_count, folder_count, size) ==
    [id |-> id, name |-> name, parent_id |-> parent_id,
     file_count |-> file_count, folder_count |-> folder_count, size |-> size]
\* a call that returns no FolderInfo
NoInfo == FolderInfo(0, "", 0, 0, 0, 0)

\* HashMap::insert / HashMap::remove
Insert(m, k, v) == [x \in DOMAIN m \cup {k} |-> IF x = k THEN v ELSE m[x]]
Remove(m, k) == [x \in DOMAIN m \ {k} |-> m[x]]

EmptyMap == [x \in {} |-> 0]

\* a plausible slip: the same-name check is left out
create_folder_NoDuplicateCheck(metadata, name, parent_id, folder_id, created_at) ==
    IF parent_id # None /\ parent_id \notin DOMAIN metadata
    THEN [folders |-> metadata, write |-> FALSE, info |-> NoInfo,
          result |-> NotFound("Parent folder not found")]
    ELSE [folders |-> Insert(metadata, folder_id, FolderMetadata(folder_id, name, parent_id, created_at)),
          write |-> TRUE, info |-> FolderInfo(folder_id, name, parent_id, 0, 0, 0),
          result |-> Ok]

\* a plausible slip: the parent is not looked up
create_folder_NoParentCheck(metadata, name, parent_id, folder_id, created_at) ==
    IF \E f \in DOMAIN metadata :
            metadata[f].name = name /\ metadata[f].parent_id = parent_id
    THEN [folders |-> metadata, write |-> FALSE, info |-> NoInfo,
          result |-> BadRequest("Folder already exists in this location")]
    ELSE [folders |-> Insert(metadata, folder_id, FolderMetadata(folder_id, name, parent_id, created_at)),
          write |-> TRUE, info |-> FolderInfo(folder_id, name, parent_id, 0, 0, 0),
          result |-> Ok]

\* create_folder on a loaded folder table; folder_id is the fresh UUID
create_folder(metadata, name, parent_id, folder_id, created_at) ==
    IF parent_id # None /\ parent_id \notin DOMAIN metadata
    THEN [folders |-> metadata, write |-> FALSE, info |-> NoInfo,
          result |-> NotFound("Parent folder not found")]
    ELSE IF \E f \in DOMAIN metadata :
                metadata[f].name = name /\ metadata[f].parent_id = parent_id
    THEN [folders |-> metadata, write |-> FALSE, info |-> NoInfo,
          result |-> BadRequest("Folder already exists in this location")]
    ELSE [folders |-> Insert(metadata, folder_id, FolderMetadata(folder_id, name, parent_id, created_at)),
          write |-> TRUE, info |-> FolderInfo(folder_id, name, parent_id, 0, 0, 0),
          result |-> Ok]

\* a plausible slip: only files are looked for, subfolders are not
delete_folder_NoSubfolderCheck(folder_metadata, file_metadata, folder_id) ==
    IF folder_id \notin DOMAIN folder_metadata
    THEN [folders |-> folder_metadata, write |-> FALSE, result |-> NotFound("Folder not found")]
    ELSE IF \E fn \in DOMAIN file_metadata : file_metadata[fn].folder_id = folder_id
    THEN [folders |-> folder_metadata, write |-> FALSE,
          result |-> BadRequest("Cannot delete folder: folder contains files")]
    ELSE [folders |-> Remove(folder_metadata, folder_id), write |-> TRUE, result |-> Ok]

\* delete_folder on the loaded folder and file tables
delete_folder(folder_metadata, file_metadata, folder_id) ==
    IF folder_id \notin DOMAIN folder_metadata
    THEN [folders |-> folder_metadata, write |-> FALSE, result |-> NotFound("Folder not found")]
    ELSE IF \E fn \in DOMAIN file_metadata : file_metadata[fn].folder_id = folder_id
    THEN [folders |-> folder_metadata, write |-> FALSE,
          result |-> BadRequest("Cannot delete folder: folder contains files")]
    ELSE IF \E f \in DOMAIN folder_metadata : folder_metadata[f].parent_id = folder_id
    THEN [folders |-> folder_metadata, write |-> FALSE,
          result |-> BadRequest("Cannot delete folder: folder contains subfolders")]
    ELSE [folders |-> Remove(folder_metadata, folder_id), write |-> TRUE, result |-> Ok]

\* the while-let walk of move_folder over current_parent: "hit" when
\* folder_id is met, "clear" when the chain ends at None (or at an id that
\* is not in the table), "loop" when the chain never ends: after as many
\* steps as there are folders the walk is inside a cycle that does not
\* contain folder_id, and the source loop has no exit from it.
RECURSIVE Walk(_, _, _, _)
Walk(folder_metadata, current_parent, folder_id, steps) ==
    IF current_parent = None THEN "clear"
    ELSE IF current_parent = folder_id THEN "hit"
    ELSE IF steps > Cardinality(DOMAIN folder_metadata) THEN "loop"
    ELSE Walk(folder_metadata,
              IF current_parent \in DOMAIN folder_metadata
              THEN folder_metadata[current_parent].parent_id ELSE None,
              folder_id, steps + 1)

\* a plausible slip: only the new parent itself is compared with folder_id
CircularReference_DirectOnly(folder_metadata, folder_id, new_parent_id) ==
    IF new_parent_id = folder_id THEN "hit" ELSE "clear"

\* the circular-reference check of move_folder
CircularReference(folder_metadata, folder_id, new_parent_id) ==
    Walk(folder_metadata, new_parent_id, folder_id, 0)

\* a plausible slip: the name check at the destination is left out
move_folder_NoNameCheck(folder_metadata, folder_id, new_parent_id) ==
    IF folder_id \notin DOMAIN folder_metadata
    THEN [folders |-> folder_metadata, write |-> FALSE, result |-> NotFound("Folder not found")]
    ELSE IF new_parent_id # None /\ new_parent_id \notin DOMAIN folder_metadata
    THEN [folders |-> folder_metadata, write |-> FALSE, result |-> NotFound("Target parent folder not found")]
    ELSE IF new_parent_id # None /\ CircularReference(folder_metadata, folder_id, new_parent_id) = "hit"
    THEN [folders |-> folder_metadata, write |-> FALSE,
          result |-> BadRequest("Cannot move folder into one of its descendants")]
    ELSE [folders |-> [folder_metadata EXCEPT ![folder_id].parent_id = new_parent_id],
          write |-> TRUE, result |-> Ok]

\* a plausible slip: the circular-reference check comes before the lookups
move_folder_CycleCheckFirst(folder_metadata, folder_id, new_parent_id) ==
    IF new_parent_id # None /\ CircularReference(folder_metadata, folder_id, new_parent_id) = "hit"
    THEN [folders |-> folder_metadata, write |-> FALSE,
          result |-> BadRequest("Cannot move folder into one of its descendants")]
    ELSE IF folder_id \notin DOMAIN folder_metadata
    THEN [folders |-> folder_metadata, write |-> FALSE, result |-> NotFound("Folder not found")]
    ELSE IF new_parent_id # None /\ new_parent_id \notin DOMAIN folder_metadata
    THEN [folders |-> folder_metadata, write |-> FALSE, result |-> NotFound("Target parent folder not found")]
    ELSE IF new_parent_id # None /\ CircularReference(folder_metadata, folder_id, new_parent_id) = "loop"
    THEN [folders |-> folder_metadata, write |-> FALSE, result |-> Diverges]
    ELSE IF \E e \in DOMAIN folder_metadata :
                /\ folder_metadata[e].name = folder_metadata[folder_id].name
                /\ folder_metadata[e].parent_id = new_parent_id
                /\ folder_metadata[e].id # folder_id
    THEN [folders |-> folder_metadata, write |-> FALSE,
          result |-> BadRequest("Folder already exists in target location")]
    ELSE [folders |-> [folder_metadata EXCEPT ![folder_id].parent_id = new_parent_id],
          write |-> TRUE, result |-> Ok]

\* a plausible slip: the name check does not leave out the folder itself
move_folder_NameCheckCountsSelf(folder_metadata, folder_id, new_parent_id) ==
    IF folder_id \notin DOMAIN folder_metadata
    THEN [folders |-> folder_metadata, write |-> FALSE, result |-> NotFound("Folder not found")]
    ELSE IF new_parent_id # None /\ new_parent_id \notin DOMAIN folder_metadata
    THEN [folders |-> folder_metadata, write |-> FALSE, result |-> NotFound("Target parent folder not found")]
    ELSE IF new_parent_id # None /\ CircularReference(folder_metadata, folder_id, new_parent_id) = "hit"
    THEN [folders |-> folder_metadata, write |-> FALSE,
          result |-> BadRequest("Cannot move folder into one of its descendants")]
    ELSE IF new_parent_id # None /\ CircularReference(folder_metadata, folder_id, new_parent_id) = "loop"
    THEN [folders |-> folder_metadata, write |-> FALSE, result |-> Diverges]
    ELSE IF \E e \in DOMAIN folder_metadata :
                /\ folder_metadata[e].name = folder_metadata[folder_id].name
                /\ folder_metadata[e].parent_id = new_parent_id
    THEN [folders |-> folder_metadata, write |-> FALSE,
          result |-> BadRequest("Folder already exists in target location")]
    ELSE [folders |-> [folder_metadata EXCEPT ![folder_id].parent_id = new_parent_id],
          write |-> TRUE, result |-> Ok]

\* a plausible slip: the new parent is not looked up
move_folder_NoTargetCheck(folder_metadata, folder_id, new_parent_id) ==
    IF folder_id \notin DOMAIN folder_metadata
    THEN [folders |-> folder_metadata, write |-> FALSE, result |-> NotFound("Folder not found")]
    ELSE IF new_parent_id # None /\ CircularReference(folder_metadata, folder_id, new_parent_id) = "hit"
    THEN [folders |-> folder_metadata, write |-> FALSE,
          result |-> BadRequest("Cannot move folder into one of its descendants")]
    ELSE IF new_parent_id # None /\ CircularReference(folder_metadata, folder_id, new_parent_id) = "loop"
    THEN [folders |-> folder_metadata, write |-> FALSE, result |-> Diverges]
    ELSE IF \E e \in DOMAIN folder_metadata :
                /\ folder_metadata[e].name = folder_metadata[folder_id].name
                /\ folder_metadata[e].parent_id = new_parent_id
                /\ folder_metadata[e].id # folder_id
    THEN [folders |-> folder_metadata, write |-> FALSE,
          result |-> BadRequest("Folder already exists in target location")]
    ELSE [folders |-> [folder_metadata EXCEPT ![folder_id].parent_id = new_parent_id],
          write |-> TRUE, result |-> Ok]

\* a plausible slip: parent_id is updated before the name check
move_folder_UpdatesBeforeNameCheck(folder_metadata, folder_id, new_parent_id) ==
    IF folder_id \notin DOMAIN folder_metadata
    THEN [folders |-> folder_metadata, write |-> FALSE, result |-> NotFound("Folder not found")]
    ELSE IF new_parent_id # None /\ new_parent_id \notin DOMAIN folder_metadata
    THEN [folders |-> folder_metadata, write |-> FALSE, result |-> NotFound("Target parent folder not found")]
    ELSE IF new_parent_id # None /\ CircularReference(folder_metadata, folder_id, new_parent_id) = "hit"
    THEN [folders |-> folder_metadata, write |-> FALSE,
          result |-> BadRequest("Cannot move folder into one of its descendants")]
    ELSE IF new_parent_id # None /\ CircularReference(folder_metadata, folder_id, new_parent_id) = "loop"
    THEN [folders |-> folder_metadata, write |-> FALSE, result |-> Diverges]
    ELSE IF \E e \in DOMAIN folder_metadata :
                /\ folder_metadata[e].name = folder_metadata[folder_id].name
                /\ folder_metadata[e].parent_id = new_parent_id
                /\ folder_metadata[e].id # folder_id
    THEN [folders |-> [folder_metadata EXCEPT ![folder_id].parent_id = new_parent_id],
          write |-> TRUE,
          result |-> BadRequest("Folder already exists in target location")]
    ELSE [folders |-> [folder_metadata EXCEPT ![folder_id].parent_id = new_parent_id],
          write |-> TRUE, result |-> Ok]

\* a plausible slip: the subfolders of the moved folder stay where it was
move_folder_LeavesSubfolders(folder_metadata, folder_id, new_parent_id) ==
    IF folder_id \notin DOMAIN folder_metadata
    THEN [folders |-> folder_metadata, write |-> FALSE, result |-> NotFound("Folder not found")]
    ELSE IF new_parent_id # None /\ new_parent_id \notin DOMAIN folder_metadata
    THEN [folders |-> folder_metadata, write |-> FALSE, result |-> NotFound("Target parent folder not found")]
    ELSE IF new_parent_id # None /\ CircularReference(folder_metadata, folder_id, new_parent_id) = "hit"
    THEN [folders |-> folder_metadata, write |-> FALSE,
          result |-> BadRequest("Cannot move folder into one of its descendants")]
    ELSE IF new_parent_id # None /\ CircularReference(folder_metadata, folder_id, new_parent_id) = "loop"
    THEN [folders |-> folder_metadata, write |-> FALSE, result |-> Diverges]
    ELSE IF \E e \in DOMAIN folder_metadata :
                /\ folder_metadata[e].name = folder_metadata[folder_id].name
                /\ folder_metadata[e].parent_id = new_parent_id
                /\ folder_metadata[e].id # folder_id
    THEN [folders |-> folder_metadata, write |-> FALSE,
          result |-> BadRequest("Folder already exists in target location")]
    ELSE [folders |->
            [g \in DOMAIN folder_metadata |->
                IF g = folder_id
                THEN [folder_metadata[g] EXCEPT !.parent_id = new_parent_id]
                ELSE IF folder_metadata[g].parent_id = folder_id
                THEN [folder_metadata[g] EXCEPT
                        !.parent_id = folder_metadata[folder_id].parent_id]
                ELSE folder_metadata[g]],
          write |-> TRUE, result |-> Ok]

\* move_folder on a loaded folder table
move_folder(folder_metadata, folder_id, new_parent_id) ==
    IF folder_id \notin DOMAIN folder_metadata
    THEN [folders |-> folder_metadata, write |-> FALSE, result |-> NotFound("Folder not found")]
    ELSE IF new_parent_id # None /\ new_parent_id \notin DOMAIN folder_metadata
    THEN [folders |-> folder_metadata, write |-> FALSE, result |-> NotFound("Target parent folder not found")]
    ELSE IF new_parent_id # None /\ CircularReference(folder_metadata, folder_id, new_parent_id) = "hit"
    THEN [folders |-> folder_metadata, write |-> FALSE,
          result |-> BadRequest("Cannot move folder into one of its descendants")]
    ELSE IF new_parent_id # None /\ CircularReference(folder_metadata, folder_id, new_parent_id) = "loop"
    THEN [folders |-> folder_metadata, write |-> FALSE, result |-> Diverges]
    ELSE IF \E e \in DOMAIN folder_metadata :
                /\ folder_metadata[e].name = folder_metadata[folder_id].name
                /\ folder_metadata[e].parent_id = new_parent_id
                /\ folder_metadata[e].id # folder_id
    THEN [folders |-> folder_metadata, write |-> FALSE,
          result |-> BadRequest("Folder already exists in target location")]
    ELSE [folders |-> [folder_metadata EXCEPT ![folder_id].parent_id = new_parent_id],
          write |-> TRUE, result |-> Ok]

\* a plausible slip: the folder is not looked up
assign_file_to_folder_NoFolderCheck(folder_metadata, file_metadata, filename, folder_id, size, uploaded_at) ==
    [files |-> Insert(file_metadata, filename,
                      FileMetadata(filename, folder_id, uploaded_at, size)),
     write |-> TRUE, result |-> Ok]

\* a plausible slip: a record that exists keeps its uploaded_at
assign_file_to_folder_KeepsUploadedAt(folder_metadata, file_metadata, filename, folder_id, size, uploaded_at) ==
    IF folder_id # None /\ folder_id \notin DOMAIN folder_metadata
    THEN [files |-> file_metadata, write |-> FALSE, result |-> NotFound("Folder not found")]
    ELSE [files |-> Insert(file_metadata, filename,
                           FileMetadata(filename, folder_id,
                                        IF filename \in DOMAIN file_metadata
                                        THEN file_metadata[filename].uploaded_at
                                        ELSE uploaded_at,
                                        size)),
          write |-> TRUE, result |-> Ok]

\* assign_file_to_folder on the loaded folder and file tables; uploaded_at
\* is Utc::now() at the call
assign_file_to_folder(folder_metadata, file_metadata, filename, folder_id, size, uploaded_at) ==
    IF folder_id # None /\ folder_id \notin DOMAIN folder_metadata
    THEN [files |-> file_metadata, write |-> FALSE, result |-> NotFound("Folder not found")]
    ELSE [files |-> Insert(file_metadata, filename,
                           FileMetadata(filename, folder_id, uploaded_at, size)),
          write |-> TRUE, result |-> Ok]

\* a plausible slip: a filename without a record is an error
remove_file_metadata_AbsentIsError(file_metadata, filename) ==
    IF filename \in DOMAIN file_metadata
    THEN [files |-> Remove(file_metadata, filename), write |-> TRUE, result |-> Ok]
    ELSE [files |-> file_metadata, write |-> FALSE, result |-> NotFound("File not found")]

\* remove_file_metadata on the loaded file table
remove_file_metadata(file_metadata, filename) ==
    [files |-> Remove(file_metadata, filename), write |-> TRUE, result |-> Ok]

\* calculate_folder_stats: the files and folders directly in a folder
FilesIn(file_metadata, target_folder_id) ==
    {fn \in DOMAIN file_metadata : file_metadata[fn].folder_id = target_folder_id}

RECURSIVE SumSizes(_, _)
SumSizes(file_metadata, fns) ==
    IF fns = {} THEN 0
    ELSE LET fn == CHOOSE x \in fns : TRUE
         IN file_metadata[fn].size + SumSizes(file_metadata, fns \ {fn})

\* a plausible slip: the files of the subfolders are counted in
calculate_folder_stats_WithSubfolders(folder_metadata, file_metadata, target_folder_id) ==
    LET below == {target_folder_id} \cup
                    {f \in DOMAIN folder_metadata :
                        folder_metadata[f].parent_id = target_folder_id}
        fns == {fn \in DOMAIN file_metadata : file_metadata[fn].folder_id \in below}
    IN [file_count |-> Cardinality(fns),
        folder_count |-> Cardinality({f \in DOMAIN folder_metadata :
                                         folder_metadata[f].parent_id = target_folder_id}),
        size |-> SumSizes(file_metadata, fns)]

calculate_folder_stats(folder_metadata, file_metadata, target_folder_id) ==
    [file_count |-> Cardinality(FilesIn(file_metadata, target_folder_id)),
     folder_count |-> Cardinality({f \in DOMAIN folder_metadata :
                                      folder_metadata[f].parent_id = target_folder_id}),
     size |-> SumSizes(file_metadata, FilesIn(file_metadata, target_folder_id))]

\* the FolderInfo of a folder of the table
InfoOf(folder_metadata, file_metadata, id) ==
    LET metadata == folder_metadata[id]
        stats == calculate_folder_stats(folder_metadata, file_metadata, id)
    IN FolderInfo(metadata.id, metadata.name, metadata.parent_id,
                  stats.file_count, stats.folder_count, stats.size)

\* a plausible slip: each folder is pushed at the end, not inserted at 0
RECURSIVE Breadcrumbs_Pushed(_, _, _, _)
Breadcrumbs_Pushed(folder_metadata, file_metadata, current_id, steps) ==
    IF current_id = None \/ current_id \notin DOMAIN folder_metadata
    THEN [loop |-> FALSE, breadcrumbs |-> <<>>]
    ELSE IF steps > Cardinality(DOMAIN folder_metadata)
    THEN [loop |-> TRUE, breadcrumbs |-> <<>>]
    ELSE LET above == Breadcrumbs_Pushed(folder_metadata, file_metadata,
                                         folder_metadata[current_id].parent_id, steps + 1)
         IN IF above.loop THEN above
            ELSE [loop |-> FALSE,
                  breadcrumbs |-> <<InfoOf(folder_metadata, file_metadata, current_id)>>
                                      \o above.breadcrumbs]

\* the while-let loop that builds the breadcrumbs from current_id upwards:
\* it ends at None or at an id that is not in the table. After more steps
\* than there are folders it is inside a cycle, which it never leaves:
\* loop stands for the Vec growing without end.
RECURSIVE Breadcrumbs(_, _, _, _)
Breadcrumbs(folder_metadata, file_metadata, current_id, steps) ==
    IF current_id = None \/ current_id \notin DOMAIN folder_metadata
    THEN [loop |-> FALSE, breadcrumbs |-> <<>>]
    ELSE IF steps > Cardinality(DOMAIN folder_metadata)
    THEN [loop |-> TRUE, breadcrumbs |-> <<>>]
    ELSE LET above == Breadcrumbs(folder_metadata, file_metadata,
                                  folder_metadata[current_id].parent_id, steps + 1)
         IN IF above.loop THEN above
            ELSE [loop |-> FALSE,
                  breadcrumbs |-> Append(above.breadcrumbs,
                                         InfoOf(folder_metadata, file_metadata, current_id))]

NoListing == [folders |-> <<>>, current_folder |-> NoInfo, breadcrumbs |-> <<>>]

\* the UTF-8 bytes of a folder name
Bytes(name) ==
    CASE name = "Invoices" -> <<73, 110, 118, 111, 105, 99, 101, 115>>
      [] name = "archive" -> <<97, 114, 99, 104, 105, 118, 101>>
      [] OTHER -> <<>>

\* u8::to_ascii_lowercase
Lower(b) == IF b \in 65..90 THEN b + 32 ELSE b

\* a plausible slip: the names are compared without regard to case
cmp_IgnoreCase(a, b) ==
    LET x == [i \in 1..Len(Bytes(a)) |-> Lower(Bytes(a)[i])]
        y == [i \in 1..Len(Bytes(b)) |-> Lower(Bytes(b)[i])]
        n == IF Len(x) <= Len(y) THEN Len(x) ELSE Len(y)
        differ == {i \in 1..n : x[i] # y[i]}
    IN IF differ # {}
       THEN LET i == CHOOSE k \in differ : \A j \in differ : k <= j
            IN IF x[i] < y[i] THEN "Less" ELSE "Greater"
       ELSE IF Len(x) < Len(y) THEN "Less"
       ELSE IF Len(x) > Len(y) THEN "Greater"
       ELSE "Equal"

\* String::cmp: the bytes compared one by one, then the lengths
cmp(a, b) ==
    LET x == Bytes(a)
        y == Bytes(b)
        n == IF Len(x) <= Len(y) THEN Len(x) ELSE Len(y)
        differ == {i \in 1..n : x[i] # y[i]}
    IN IF differ # {}
       THEN LET i == CHOOSE k \in differ : \A j \in differ : k <= j
            IN IF x[i] < y[i] THEN "Less" ELSE "Greater"
       ELSE IF Len(x) < Len(y) THEN "Less"
       ELSE IF Len(x) > Len(y) THEN "Greater"
       ELSE "Equal"

\* folders.sort_by(|a, b| a.name.cmp(&b.name)) on the FolderInfos collected
\* from the HashMap: the least name first. Two folders of one name come in
\* the order the HashMap iterates them, which the code does not fix.
RECURSIVE sort_by_name(_)
sort_by_name(infos) ==
    IF infos = {} THEN <<>>
    ELSE LET first == CHOOSE a \in infos : \A b \in infos : cmp(a.name, b.name) # "Greater"
         IN <<first>> \o sort_by_name(infos \ {first})

\* list_folder_contents on the loaded tables
list_folder_contents(folder_metadata, file_metadata, folder_id) ==
    IF folder_id # None /\ folder_id \notin DOMAIN folder_metadata
    THEN [result |-> NotFound("Folder not found"), listing |-> NoListing]
    ELSE IF Breadcrumbs(folder_metadata, file_metadata, folder_id, 0).loop
    THEN [result |-> Diverges, listing |-> NoListing]
    ELSE [result |-> Ok,
          listing |->
            [folders |-> sort_by_name({InfoOf(folder_metadata, file_metadata, f) :
                            f \in {g \in DOMAIN folder_metadata :
                                     folder_metadata[g].parent_id = folder_id}}),
             current_folder |-> IF folder_id = None THEN NoInfo
                                ELSE InfoOf(folder_metadata, file_metadata, folder_id),
             breadcrumbs |->
                Breadcrumbs(folder_metadata, file_metadata, folder_id, 0).breadcrumbs]]

\* get_folder_info on the loaded tables
get_folder_info(folder_metadata, file_metadata, folder_id) ==
    IF folder_id \in DOMAIN folder_metadata
    THEN [result |-> Ok, info |-> InfoOf(folder_metadata, file_metadata, folder_id)]
    ELSE [result |-> NotFound("Folder not found"), info |-> NoInfo]

\* get_file_folder on the loaded file table: the folder of the file, None
\* also for a file the table does not have
get_file_folder(file_metadata, filename) ==
    IF filename \in DOMAIN file_metadata THEN file_metadata[filename].folder_id ELSE None

\* get_files_in_folder on the loaded file table: for None, every file
get_files_in_folder(file_metadata, folder_id) ==
    IF folder_id # None THEN FilesIn(file_metadata, folder_id) ELSE DOMAIN file_metadata

\* ------------------------------------------------------- JwtService (pure)
\* Duration::hours(1) and Duration::days(7)
AccessTokenHours == 1
RefreshTokenDays == 7
AccessTokenSeconds == AccessTokenHours * 3600
RefreshTokenSeconds == RefreshTokenDays * 86400

\* config.auth: the signing secret and the admin credential pair
Secret == "jwt_secret"
AdminUsername == "admin"
AdminPassword == "admin_password"
Usernames == {"admin", "guest"}
Passwords == {"admin_password", "wrong"}

Claims(sub, exp, iat, jti, token_type) ==
    [sub |-> sub, exp |-> exp, iat |-> iat, jti |-> jti, token_type |-> token_type]
NoClaims == Claims("", 0, 0, 0, "")

\* jsonwebtoken::encode: the claims signed with a key
encode(claims, key) == [claims |-> claims, sig |-> key]
\* a string that is no JWT, and a request without a bearer token
Garbage == [claims |-> NoClaims, sig |-> "malformed"]
NoHeader == [claims |-> NoClaims, sig |-> "absent"]
\* the claims of an issued token signed with another key
Forged(token) == [token EXCEPT !.sig = "other_secret"]

Valid(claims) == [kind |-> "Ok", msg |-> "", claims |-> claims]
Unauthorized(m) == [kind |-> "Unauthorized", msg |-> m, claims |-> NoClaims]

\* jsonwebtoken::decode with Validation::default(): the signature is
\* checked with the service's key, then exp with the default leeway of 60 s
decode(token, key, t) ==
    IF token.sig # key THEN Unauthorized("Invalid token")
    ELSE IF token.claims.exp < t - 60 THEN Unauthorized("Invalid token")
    ELSE Valid(token.claims)

create_access_token(username, t, jti) ==
    encode(Claims(username, t + AccessTokenSeconds, t, jti, "access"), Secret)

create_refresh_token(username, t, jti) ==
    encode(Claims(username, t + RefreshTokenSeconds, t, jti, "refresh"), Secret)

\* a plausible slip: the blacklist is not consulted
validate_token_NoBlacklist(token, bl, t) == decode(token, Secret, t)

\* a plausible slip: a revoked token revokes every token of its subject
validate_token_RevokesSubject(token, bl, t) ==
    IF \E b \in bl : b.claims.sub = token.claims.sub
    THEN Unauthorized("Token has been revoked")
    ELSE decode(token, Secret, t)

validate_token(token, bl, t) ==
    IF token \in bl THEN Unauthorized("Token has been revoked")
    ELSE decode(token, Secret, t)

\* a plausible slip: a token that is in the set is taken out of it
blacklist_token_Toggles(bl, token) == IF token \in bl THEN bl \ {token} ELSE bl \cup {token}

\* a plausible slip: the token never reaches the set
blacklist_token_Forgets(bl, token) == bl

blacklist_token(bl, token) == bl \cup {token}

\* ------------------------------------------------- request paths and headers
\* A path is the sequence of the pieces the middlewares compare it by, so
\* that starts_with, ends_with and contains are what they are on strings.
StartsWith(path, prefix) ==
    Len(prefix) <= Len(path) /\ SubSeq(path, 1, Len(prefix)) = prefix
EndsWith(path, suffix) ==
    Len(suffix) <= Len(path)
        /\ SubSeq(path, Len(path) - Len(suffix) + 1, Len(path)) = suffix
Contains(path, piece) == \E i \in 1..Len(path) : path[i] = piece

LoginPath == <<"/", "api", "/", "auth", "/", "login">>
LogoutPath == <<"/", "api", "/", "auth", "/", "logout">>
RefreshPath == <<"/", "api", "/", "auth", "/", "refresh">>
VerifyPath == <<"/", "api", "/", "auth", "/", "verify">>
FoldersPath == <<"/", "api", "/", "folders">>
UploadsPath == <<"/", "upload", "s", "/", "a", ".png">>
HealthPath == <<"/", "health">>
ApiUploadPath == <<"/", "api", "/", "upload">>
\* the stored files of SpecGuard, and each name as Path::file_stem and
\* the extension with its dot
GuardFileNames == {"a.png", "c.pdf"}
FileStem(filename) == CASE filename = "a.png" -> "a" [] filename = "c.pdf" -> "c"
FileExtension(filename) == CASE filename = "a.png" -> ".png" [] filename = "c.pdf" -> ".pdf"
\* /api/files/{filename}
FilePath(filename) ==
    <<"/", "api", "/", "files", "/", FileStem(filename), FileExtension(filename)>>
\* the paths requests are made for
Paths ==
    {LoginPath, LogoutPath, RefreshPath, VerifyPath, FoldersPath, UploadsPath, HealthPath,
     ApiUploadPath} \cup {FilePath(filename) : filename \in GuardFileNames}

\* the Authorization header of a request
NoAuthorization == [scheme |-> "none", token |-> NoHeader, username |-> "", password |-> ""]
Bearer(token) == [scheme |-> "Bearer", token |-> token, username |-> "", password |-> ""]
Basic(username, password) ==
    [scheme |-> "Basic", token |-> NoHeader, username |-> username, password |-> password]
\* the token a handler reads from it: only from a "Bearer " header
BearerToken(header) == IF header.scheme = "Bearer" THEN header.token ELSE NoHeader

\* AppConfig::default().auth
AuthMode == "protected"
AuthDisabledRoutes ==
    {<<"/">>, <<"/", "web">>, <<"/", "web", "/">>, <<"/", "web", "/*">>,
     <<"/", "favicon", ".ico">>, <<"/", "api", "/", "health">>, <<"/", "docs">>,
     <<"/", "api-docs">>, LoginPath, RefreshPath}
StaticSuffixes ==
    {".ico", ".png", ".jpg", ".jpeg", ".gif", ".svg", ".webp", ".css", ".js",
     ".woff", ".woff2", ".ttf", ".eot", ".txt", ".json", ".webmanifest"}
StaticPrefixes ==
    {<<"/", "assets", "/">>, <<"/", "web", "/", "assets", "/">>, <<"/", "upload", "s", "/">>}

is_auth_disabled(path) ==
    \E route \in AuthDisabledRoutes :
        \/ route = path
        \/ /\ EndsWith(route, <<"/*">>)
           /\ StartsWith(path, SubSeq(route, 1, Len(route) - 1))

is_static_file(path) ==
    \/ \E suffix \in StaticSuffixes : EndsWith(path, <<suffix>>)
    \/ \E prefix \in StaticPrefixes : StartsWith(path, prefix)

\* the paths the middleware passes on without authentication
AuthExempt == {path \in Paths : is_auth_disabled(path) \/ is_static_file(path)}

\* a plausible slip: any token that validates is let through
AuthMiddleware_AnyToken(path, header, bl, t) ==
    LET auth_mode == CASE AuthMode = "public" -> "disabled"
                       [] AuthMode = "local" -> "protected"
                       [] OTHER -> AuthMode
    IN IF auth_mode = "disabled" THEN TRUE
       ELSE IF path \in AuthExempt THEN TRUE
       ELSE IF header.scheme = "Bearer"
            THEN validate_token(header.token, bl, t).kind = "Ok"
       ELSE IF header.scheme = "Basic"
            THEN header.username = AdminUsername /\ header.password = AdminPassword
       ELSE FALSE

\* AuthMiddlewareService::call: TRUE when the request is passed on to the
\* wrapped service, FALSE when it is answered 401
AuthMiddleware(path, header, bl, t) ==
    LET auth_mode == CASE AuthMode = "public" -> "disabled"
                       [] AuthMode = "local" -> "protected"
                       [] OTHER -> AuthMode
    IN IF auth_mode = "disabled" THEN TRUE
       ELSE IF path \in AuthExempt THEN TRUE
       ELSE IF header.scheme = "Bearer"
            THEN LET token_data == validate_token(header.token, bl, t)
                 IN token_data.kind = "Ok" /\ token_data.claims.token_type = "access"
       ELSE IF header.scheme = "Basic"
            THEN header.username = AdminUsername /\ header.password = AdminPassword
       ELSE FALSE

\* -------------------------------------------------- RateLimitMiddleware (pure)
\* AppConfig::default().rate_limit
RateLimitRule(enabled, requests_per_minute, burst_size) ==
    [enabled |-> enabled, requests_per_minute |-> requests_per_minute,
     burst_size |-> burst_size]
RateLimitConfig ==
    [auth |-> RateLimitRule(TRUE, 10, 3),
     upload |-> RateLimitRule(TRUE, 60, 10),
     static |-> RateLimitRule(TRUE, 1000, 100)]
RateLimitDisabledRoutes == {<<"/", "health">>, <<"/", "docs">>, <<"/", "api-docs">>}
RouteTypes == {"auth", "upload", "static"}

\* NonZeroU32::new(x).unwrap_or(fallback)
NonZero(x, fallback) == IF x = 0 THEN fallback ELSE x

\* Quota::per_minute(requests_per_minute).allow_burst(burst_size), in
\* milliseconds: one cell is replenished every 60 s / requests_per_minute
Quota(route_type) ==
    LET rule == RateLimitConfig[route_type]
        fallback == CASE route_type = "auth" -> RateLimitRule(TRUE, 10, 3)
                      [] route_type = "upload" -> RateLimitRule(TRUE, 60, 10)
                      [] route_type = "static" -> RateLimitRule(TRUE, 1000, 100)
    IN [replenish_1_per |->
            60000 \div NonZero(rule.requests_per_minute, fallback.requests_per_minute),
        max_burst |-> NonZero(rule.burst_size, fallback.burst_size)]

\* RateLimitMiddleware::new: a limiter with no keys for every enabled rule
new(config) == [route_type \in {r \in RouteTypes : config[r].enabled} |-> EmptyMap]
NewLimiters == new(RateLimitConfig)

\* the configurations RATE_LIMIT_*_ENABLED can give: each rule on or off
RateLimitConfigs ==
    {[auth |-> [RateLimitConfig.auth EXCEPT !.enabled = a],
      upload |-> [RateLimitConfig.upload EXCEPT !.enabled = u],
      static |-> [RateLimitConfig.static EXCEPT !.enabled = s]] :
        a \in BOOLEAN, u \in BOOLEAN, s \in BOOLEAN}

\* a plausible slip: the mention of login or auth is looked for first
determine_route_type_AuthFirst(path) ==
    IF \E disabled_route \in RateLimitDisabledRoutes : StartsWith(path, disabled_route)
    THEN "none"
    ELSE IF Contains(path, "login") \/ Contains(path, "auth") THEN "auth"
    ELSE IF StartsWith(path, <<"/", "upload", "s">>) THEN "static"
    ELSE IF StartsWith(path, <<"/", "upload">>) THEN "upload"
    ELSE "upload"

\* "none" is Option::None: no rate limiting for the path
determine_route_type(path) ==
    IF \E disabled_route \in RateLimitDisabledRoutes : StartsWith(path, disabled_route)
    THEN "none"
    ELSE IF StartsWith(path, <<"/", "upload", "s">>) THEN "static"
    ELSE IF StartsWith(path, <<"/", "upload">>) THEN "upload"
    ELSE IF Contains(path, "login") \/ Contains(path, "auth") THEN "auth"
    ELSE "upload"

\* the route type of each path
RouteType == [path \in Paths |-> determine_route_type(path)]

Max(a, b) == IF a >= b THEN a ELSE b

\* a plausible slip: the state of the key is not advanced on admission
check_key_NoUpdate(state, quota, key, t0) == [admit |-> TRUE, state |-> state]

\* governor's GCRA, RateLimiter::check_key at time t0 (ms since the limiter
\* was made): the state of a key is its theoretical arrival time
check_key(state, quota, key, t0) ==
    LET t == quota.replenish_1_per
        tau == t * quota.max_burst
        tat == IF key \in DOMAIN state THEN state[key] ELSE t0 + t
        earliest_time == Max(tat - tau, 0)
    IN IF t0 < earliest_time
       THEN [admit |-> FALSE, state |-> state]
       ELSE [admit |-> TRUE, state |-> Insert(state, key, Max(tat, t0) + t)]

\* a plausible slip: a route type without a limiter is held to the upload limit
RateLimit_FallsBackToUpload(worker_limiters, path, client_ip, t0) ==
    LET route_type == RouteType[path]
        used == IF route_type \in DOMAIN worker_limiters THEN route_type ELSE "upload"
    IN IF route_type = "none" \/ used \notin DOMAIN worker_limiters
       THEN [outcome |-> "none", limiters |-> worker_limiters]
       ELSE LET r == check_key(worker_limiters[used], Quota(used), client_ip, t0)
            IN [outcome |-> IF r.admit THEN "admit" ELSE "reject",
                limiters |-> [worker_limiters EXCEPT ![used] = r.state]]

\* RateLimitService::call on the limiters of one worker: "admit", "reject"
\* (429) or "none" when the path is not rate limited
RateLimit(worker_limiters, path, client_ip, t0) ==
    LET route_type == RouteType[path] IN
    IF route_type = "none" \/ route_type \notin DOMAIN worker_limiters
    THEN [outcome |-> "none", limiters |-> worker_limiters]
    ELSE LET r == check_key(worker_limiters[route_type], Quota(route_type), client_ip, t0)
         IN [outcome |-> IF r.admit THEN "admit" ELSE "reject",
             limiters |-> [worker_limiters EXCEPT ![route_type] = r.state]]

\* ------------------------------------------------------ get_client_ip (pure)
\* A header value or an address text is the sequence of the pieces that
\* split, trim and parse tell apart: a comma, a colon, a blank, or a word
\* that has none of them in it.
\* an optional text: a header of the request, or peer_addr()
Absent == [present |-> FALSE, value |-> <<>>]
Present(value) == [present |-> TRUE, value |-> value]
\* the words that are IPv4 addresses
IpAddrs == {"10.0.0.1", "10.0.0.2", "10.0.0.3", "127.0.0.1"}
Loopback == "127.0.0.1"

\* str::split(separator).next(): the text before the first separator
SplitNext(text, separator) ==
    LET at == {i \in 1..Len(text) : text[i] = separator}
    IN IF at = {} THEN text
       ELSE SubSeq(text, 1, (CHOOSE i \in at : \A j \in at : i <= j) - 1)

\* str::trim: the blanks at both ends are dropped
trim(text) ==
    LET solid == {i \in 1..Len(text) : text[i] # " "}
    IN IF solid = {} THEN <<>>
       ELSE SubSeq(text, CHOOSE i \in solid : \A j \in solid : i <= j,
                         CHOOSE i \in solid : \A j \in solid : i >= j)

\* str::parse::<IpAddr>: the whole text has to be one address
parse(text) ==
    IF Len(text) = 1 /\ text[1] \in IpAddrs
    THEN [ok |-> TRUE, ip |-> text[1]]
    ELSE [ok |-> FALSE, ip |-> ""]

\* a plausible slip: X-Real-IP is looked at before X-Forwarded-For
get_client_ip_RealIpFirst(x_forwarded_for, x_real_ip, peer_addr) ==
    LET first_ip == parse(trim(SplitNext(x_forwarded_for.value, ",")))
        real_ip == parse(x_real_ip.value)
        peer_ip == parse(SplitNext(peer_addr.value, ":"))
    IN IF x_real_ip.present /\ real_ip.ok THEN real_ip.ip
       ELSE IF x_forwarded_for.present /\ first_ip.ok THEN first_ip.ip
       ELSE IF peer_addr.present /\ peer_ip.ok THEN peer_ip.ip
       ELSE Loopback

\* RateLimitService::get_client_ip on the x-forwarded-for header, the
\* x-real-ip header and connection_info().peer_addr() of a request
get_client_ip(x_forwarded_for, x_real_ip, peer_addr) ==
    LET first_ip == parse(trim(SplitNext(x_forwarded_for.value, ",")))
        real_ip == parse(x_real_ip.value)
        peer_ip == parse(SplitNext(peer_addr.value, ":"))
    IN IF x_forwarded_for.present /\ first_ip.ok THEN first_ip.ip
       ELSE IF x_real_ip.present /\ real_ip.ok THEN real_ip.ip
       ELSE IF peer_addr.present /\ peer_ip.ok THEN peer_ip.ip
       ELSE Loopback

\* ---------------------------------------------------------- SpecAuth: state
NoAuthCall == [op |-> "none", username |-> "", token |-> NoHeader, status |-> 200,
               valid |-> FALSE, access_token |-> NoHeader, refresh_token |-> NoHeader,
               pre_issued |-> {}, pre_blacklist |-> {}, pre_rotated |-> {}]

AuthCall(op, username, token, status, valid, access_token, refresh_token) ==
    [op |-> op, username |-> username, token |-> token, status |-> status,
     valid |-> valid, access_token |-> access_token, refresh_token |-> refresh_token,
     pre_issued |-> issued, pre_blacklist |-> blacklist, pre_rotated |-> rotated]

AuthInit ==
    /\ blacklist = {}
    /\ issued = {}
    /\ jtis = 0
    /\ now = 0
    /\ ticks = 0
    /\ revoked = {}
    /\ rotated = {}
    /\ lastAuth = NoAuthCall

\* what a client can send: a token it was given, such a token re-signed
\* with another key, or a string that is no token
Presentable == issued \cup {Forged(t) : t \in issued} \cup {Garbage}

\* ------------------------------------------------------ SpecAuth: handlers
\* the new access + refresh pair of login and refresh_token
IssuePairUpTo(sub, max) ==
    /\ jtis + 2 <= max
    /\ jtis' = jtis + 2
    /\ issued' = issued \cup {create_access_token(sub, now, jtis + 1),
                              create_refresh_token(sub, now, jtis + 2)}

IssuePair(sub) == IssuePairUpTo(sub, MaxTokens)

Login(username, password) ==
    IF username # AdminUsername \/ password # AdminPassword
    THEN /\ lastAuth' = AuthCall("login", username, NoHeader, 401, FALSE, NoHeader, NoHeader)
         /\ UNCHANGED <<blacklist, issued, jtis, now, ticks, revoked, rotated>>
    ELSE /\ IssuePair(username)
         /\ lastAuth' = AuthCall("login", username, NoHeader, 200, FALSE,
                                 create_access_token(username, now, jtis + 1),
                                 create_refresh_token(username, now, jtis + 2))
         /\ UNCHANGED <<blacklist, now, ticks, revoked, rotated>>

Logout(header) ==
    /\ IF header # NoHeader /\ validate_token(header, blacklist, now).kind = "Ok"
       THEN /\ blacklist' = blacklist_token(blacklist, header)
            /\ revoked' = revoked \cup {header}
       ELSE UNCHANGED <<blacklist, revoked>>
    /\ lastAuth' = AuthCall("logout", "", header, 200, FALSE, NoHeader, NoHeader)
    /\ UNCHANGED <<issued, jtis, now, ticks, rotated>>

RefreshToken(token) ==
    LET token_data == validate_token(token, blacklist, now) IN
    IF token_data.kind # "Ok" \/ token_data.claims.token_type # "refresh"
    THEN /\ lastAuth' = AuthCall("refresh_token", "", token, 401, FALSE, NoHeader, NoHeader)
         /\ UNCHANGED <<blacklist, issued, jtis, now, ticks, revoked, rotated>>
    ELSE /\ blacklist' = blacklist_token(blacklist, token)
         /\ revoked' = revoked \cup {token}
         /\ rotated' = rotated \cup {token}
         /\ IssuePair(token_data.claims.sub)
         /\ lastAuth' = AuthCall("refresh_token", token_data.claims.sub, token, 200, FALSE,
                                 create_access_token(token_data.claims.sub, now, jtis + 1),
                                 create_refresh_token(token_data.claims.sub, now, jtis + 2))
         /\ UNCHANGED <<now, ticks>>

VerifyToken(header) ==
    LET token_data == validate_token(header, blacklist, now)
        valid == /\ header # NoHeader
                 /\ token_data.kind = "Ok"
                 /\ token_data.claims.token_type = "access"
    IN /\ lastAuth' = AuthCall("verify_token", IF valid THEN token_data.claims.sub ELSE "",
                               header, 200, valid, NoHeader, NoHeader)
       /\ UNCHANGED <<blacklist, issued, jtis, now, ticks, revoked, rotated>>

\* a request for a protected route, as far as the authentication middleware
Protected(header) ==
    /\ lastAuth' = AuthCall("protected", header.username, header.token,
                            IF AuthMiddleware(FoldersPath, header, blacklist, now)
                            THEN 200 ELSE 401,
                            FALSE, NoHeader, NoHeader)
    /\ UNCHANGED <<blacklist, issued, jtis, now, ticks, revoked, rotated>>

\* the Authorization headers a client can send
Headers ==
    {NoAuthorization} \cup {Bearer(t) : t \in Presentable}
        \cup {Basic(AdminUsername, password) : password \in Passwords}

\* time passes: the leeway, an access lifetime or a refresh lifetime
Tick(d) ==
    /\ ticks < MaxTicks
    /\ ticks' = ticks + 1
    /\ now' = now + d
    /\ lastAuth' = AuthCall("tick", "", NoHeader, 200, FALSE, NoHeader, NoHeader)
    /\ UNCHANGED <<blacklist, issued, jtis, revoked, rotated>>

NextAuth ==
    \/ \E username \in Usernames, password \in Passwords :
            Login(username, password) /\ UNCHANGED <<storeVars, concVars, limitVars, calls, reference>>
    \/ \E header \in Presentable \cup {NoHeader} :
            Logout(header) /\ UNCHANGED <<storeVars, concVars, limitVars, calls, reference>>
    \/ \E token \in Presentable :
            RefreshToken(token) /\ UNCHANGED <<storeVars, concVars, limitVars, calls, reference>>
    \/ \E header \in Presentable \cup {NoHeader} :
            VerifyToken(header) /\ UNCHANGED <<storeVars, concVars, limitVars, calls, reference>>
    \/ \E header \in Headers :
            Protected(header) /\ UNCHANGED <<storeVars, concVars, limitVars, calls, reference>>
    \/ \E d \in {60, AccessTokenSeconds, RefreshTokenSeconds} :
            Tick(d) /\ UNCHANGED <<storeVars, concVars, limitVars, calls, reference>>

\* ------------------------------- SpecRevoke: blacklist_token with any token
\* JwtService::blacklist_token called by itself. It returns Err only when
\* the blacklist's Mutex is poisoned, which takes a panic in a thread that
\* holds the lock; the two places that hold it call HashSet::contains and
\* HashSet::insert and nothing else, so the call returns Ok(()), recorded
\* as status 200.
BlacklistToken(token) ==
    /\ Cardinality(revoked \cup {token}) <= MaxRevokes
    /\ blacklist' = blacklist_token(blacklist, token)
    /\ revoked' = revoked \cup {token}
    /\ lastAuth' = AuthCall("blacklist_token", "", token, 200, FALSE, NoHeader, NoHeader)
    /\ UNCHANGED <<issued, jtis, now, ticks, rotated>>

NextRevoke ==
    \/ \E password \in Passwords :
            Login(AdminUsername, password) /\ UNCHANGED <<storeVars, concVars, limitVars, calls, reference>>
    \/ \E header \in issued \cup {NoHeader} :
            Logout(header) /\ UNCHANGED <<storeVars, concVars, limitVars, calls, reference>>
    \/ \E token \in issued :
            RefreshToken(token) /\ UNCHANGED <<storeVars, concVars, limitVars, calls, reference>>
    \/ \E token \in Presentable :
            BlacklistToken(token) /\ UNCHANGED <<storeVars, concVars, limitVars, calls, reference>>
    \/ \E d \in {RefreshTokenSeconds} :
            Tick(d) /\ UNCHANGED <<storeVars, concVars, limitVars, calls, reference>>

\* ----------------------------------------- SpecLimit: the static file server
\* The static server wraps its Files service in RateLimitMiddleware alone.
\* HttpServer::new runs its factory closure once on every worker thread, and
\* the closure calls RateLimitMiddleware::new, so every worker has limiters
\* of its own; a request is served by whichever worker accepted its
\* connection.
NoReq == [server |-> "none", path |-> <<>>, header |-> NoAuthorization,
          x_forwarded_for |-> Absent, x_real_ip |-> Absent, peer_addr |-> Absent,
          client_ip |-> "", worker |-> 0, route_type |-> "none", auth |-> "not_reached",
          limiter |-> "not_reached", all_enabled |-> "not_reached",
          handler |-> FALSE, status |-> 0]

\* the reference server: the same workers, every rule enabled
ReferenceInit == reference = [w \in Workers |-> new([r \in RouteTypes |-> [enabled |-> TRUE]])]

LimitInit ==
    /\ limiters = [w \in Workers |-> NewLimiters]
    /\ seen = EmptyMap
    /\ checks = 0
    /\ reqs = 0
    /\ lastReq = NoReq

\* the limiter clock: milliseconds since the limiters were made
LimiterClock == now * 1000

\* the requests of one (route type, client) counted over all workers
Counted(path, client_ip, outcome) ==
    LET key == <<RouteType[path], client_ip>>
        old == IF key \in DOMAIN seen THEN seen[key]
               ELSE [first |-> now, admitted |-> 0, at |-> now, together |-> 0]
        n == IF outcome = "admit" THEN 1 ELSE 0
    IN IF outcome = "none" THEN seen
       ELSE Insert(seen, key,
                   [first |-> old.first, admitted |-> old.admitted + n, at |-> now,
                    together |-> (IF old.at = now THEN old.together ELSE 0) + n])

StaticRequest(worker, path, client_ip) ==
    \E r \in {RateLimit(limiters[worker], path, client_ip, LimiterClock)},
       all \in {RateLimit(reference[worker], path, client_ip, LimiterClock)} :
        /\ checks < MaxChecks
        /\ checks' = checks + 1
        /\ limiters' = [limiters EXCEPT ![worker] = r.limiters]
        /\ reference' = [reference EXCEPT ![worker] = all.limiters]
        /\ seen' = Counted(path, client_ip, r.outcome)
        /\ lastReq' = [server |-> "static", path |-> path, header |-> NoAuthorization,
                       x_forwarded_for |-> Absent, x_real_ip |-> Absent,
                       peer_addr |-> Present(<<client_ip>>),
                       client_ip |-> get_client_ip(Absent, Absent, Present(<<client_ip>>)),
                       worker |-> worker,
                       route_type |-> RouteType[path], auth |-> "not_reached",
                       limiter |-> r.outcome, all_enabled |-> all.outcome,
                       handler |-> r.outcome # "reject",
                       status |-> IF r.outcome = "reject" THEN 429 ELSE 200]
        /\ UNCHANGED <<storeVars, concVars, authVars, reqs, calls>>

NextLimit ==
    \/ \E worker \in Workers, client_ip \in Clients,
          path \in {LoginPath, FoldersPath, UploadsPath, HealthPath} :
            StaticRequest(worker, path, client_ip)
    \/ \E d \in {6} : Tick(d) /\ UNCHANGED <<storeVars, concVars, limitVars, calls, reference>>

\* ------------------------------------- SpecRoute: the route type of any path
\* the pieces request paths are made of, and the paths of up to MaxPieces
\* pieces that start with a slash
Pieces == {"/", "upload", "s", "auth", "login", "health", "api", "docs", ".png"}
AnyPaths ==
    UNION {{<<"/">> \o rest : rest \in [1..n -> Pieces]} : n \in 0..(MaxPieces - 1)}

\* determine_route_type, the first step of RateLimitService::call. It
\* reads the path and the disabled routes and nothing a request leaves
\* behind, so a run is one request.
DetermineRouteType(path) ==
    /\ lastReq = NoReq
    /\ lastReq' = [NoReq EXCEPT !.server = "route", !.path = path,
                                !.route_type = determine_route_type(path)]
    /\ UNCHANGED <<storeVars, concVars, authVars, limiters, seen, checks, reqs, calls, reference>>

NextRoute == \E path \in AnyPaths : DetermineRouteType(path)

\* ------------------------------------------------ SpecWeb: the web server
\* App::wrap puts each middleware around what was built before it, so the
\* one registered last runs first: a request goes through AuthMiddleware
\* (.wrap at main.rs:108), then RateLimitMiddleware (:107), then Logger and
\* Cors, then the route's handler.
\* What the middlewares do with a request, and the worker's limiters after it
Pipeline(worker, path, header, client_ip) ==
    IF ~AuthMiddleware(path, header, blacklist, now)
    THEN [auth |-> "reject", limiter |-> "not_reached", handler |-> FALSE,
          status |-> 401, limiters |-> limiters[worker]]
    ELSE LET r == RateLimit(limiters[worker], path, client_ip, LimiterClock)
         IN [auth |-> "pass", limiter |-> r.outcome, handler |-> r.outcome # "reject",
             status |-> IF r.outcome = "reject" THEN 429 ELSE 200,
             limiters |-> r.limiters]

\* a request to the web server: the middlewares, then Handler if they let
\* the request through; Status is the handler's response status
WebRequest(worker, path, header, client_ip, Handler, Status) ==
    \E p \in {Pipeline(worker, path, header, client_ip)} :
        /\ reqs < MaxWebReqs
        /\ reqs' = reqs + 1
        /\ limiters' = [limiters EXCEPT ![worker] = p.limiters]
        /\ seen' = Counted(path, client_ip,
                           IF p.limiter = "not_reached" THEN "none" ELSE p.limiter)
        /\ IF p.handler THEN Handler ELSE UNCHANGED <<authVars, storeVars>>
        /\ lastReq' = [server |-> "web", path |-> path, header |-> header,
                       x_forwarded_for |-> Absent, x_real_ip |-> Absent,
                       peer_addr |-> Present(<<client_ip>>),
                       client_ip |-> get_client_ip(Absent, Absent, Present(<<client_ip>>)),
                       worker |-> worker,
                       route_type |-> RouteType[path], auth |-> p.auth,
                       limiter |-> p.limiter, all_enabled |-> "not_reached",
                       handler |-> p.handler,
                       status |-> IF p.handler THEN Status ELSE p.status]
        /\ UNCHANGED <<concVars, checks, calls, reference>>

WebLogin(worker, client_ip, username, password) ==
    WebRequest(worker, LoginPath, NoAuthorization, client_ip,
               Login(username, password) /\ UNCHANGED storeVars, lastAuth'.status)

WebLogout(worker, client_ip, header) ==
    WebRequest(worker, LogoutPath, header, client_ip,
               Logout(BearerToken(header)) /\ UNCHANGED storeVars, lastAuth'.status)

WebRefresh(worker, client_ip, token) ==
    WebRequest(worker, RefreshPath, NoAuthorization, client_ip,
               RefreshToken(token) /\ UNCHANGED storeVars, lastAuth'.status)

WebVerify(worker, client_ip, header) ==
    WebRequest(worker, VerifyPath, header, client_ip,
               VerifyToken(BearerToken(header)) /\ UNCHANGED storeVars, lastAuth'.status)

\* GET /api/folders: the handler reads the store and changes nothing
WebFolders(worker, client_ip, header) ==
    WebRequest(worker, FoldersPath, header, client_ip, UNCHANGED <<authVars, storeVars>>, 200)

NextWeb ==
    \/ \E worker \in Workers, client_ip \in WebClients,
          username \in Usernames, password \in Passwords :
            WebLogin(worker, client_ip, username, password)
    \/ \E worker \in Workers, client_ip \in WebClients, header \in Headers :
            WebLogout(worker, client_ip, header)
    \/ \E worker \in Workers, client_ip \in WebClients, token \in Presentable :
            WebRefresh(worker, client_ip, token)
    \/ \E worker \in Workers, client_ip \in WebClients, header \in Headers :
            WebVerify(worker, client_ip, header)
    \/ \E worker \in Workers, client_ip \in WebClients, header \in Headers :
            WebFolders(worker, client_ip, header)
    \/ \E d \in {6, AccessTokenSeconds} :
            Tick(d) /\ UNCHANGED <<storeVars, concVars, limitVars, calls, reference>>

\* ------------------------------------------------------------ Spec: state
NoTables == [folders |-> EmptyMap, files |-> EmptyMap]
NoCall == [op |-> "none", name |-> "", folder_id |-> None, parent_id |-> None,
           filename |-> "", size |-> 0, result |-> Ok, info |-> NoInfo,
           listing |-> NoListing, file_folder |-> None, filenames |-> {},
           at |-> 0, pre_folders |-> EmptyMap, pre_files |-> EmptyMap]

Call(op, name, folder_id, parent_id, filename, size, result) ==
    [op |-> op, name |-> name, folder_id |-> folder_id, parent_id |-> parent_id,
     filename |-> filename, size |-> size, result |-> result, info |-> NoInfo,
     listing |-> NoListing, file_folder |-> None, filenames |-> {},
     at |-> now, pre_folders |-> folders, pre_files |-> files]

StoreInit ==
    /\ folders = EmptyMap
    /\ files = EmptyMap
    /\ uuids = 0
    /\ last = NoCall

\* a worker with no request
IdleReq == [pc |-> "idle", seq |-> 0, op |-> "none", name |-> "", folder_id |-> None,
            parent_id |-> None, filename |-> "", size |-> 0, token |-> NoHeader,
            folder_metadata |-> EmptyMap, file_metadata |-> EmptyMap,
            result |-> Ok, overlap |-> {}]

ConcIdle ==
    /\ req = [p \in Procs |-> IdleReq]
    /\ started = 0
    /\ base = NoTables
    /\ batch = {}
    /\ torn = {}

\* ---------------------------------------------- Spec: calls run to completion
CreateFolder(name, parent_id) ==
    LET r == create_folder(folders, name, parent_id, uuids + 1, now) IN
    /\ r.write => uuids < MaxIds
    /\ folders' = r.folders
    /\ uuids' = IF r.write THEN uuids + 1 ELSE uuids
    /\ last' = [Call("create_folder", name, IF r.write THEN uuids + 1 ELSE None,
                      parent_id, "", 0, r.result) EXCEPT !.info = r.info]
    /\ UNCHANGED files

DeleteFolder(folder_id) ==
    LET r == delete_folder(folders, files, folder_id) IN
    /\ folders' = r.folders
    /\ last' = Call("delete_folder", "", folder_id, None, "", 0, r.result)
    /\ UNCHANGED <<files, uuids>>

MoveFolder(folder_id, new_parent_id) ==
    LET r == move_folder(folders, folder_id, new_parent_id) IN
    /\ folders' = r.folders
    /\ last' = Call("move_folder", "", folder_id, new_parent_id, "", 0, r.result)
    /\ UNCHANGED <<files, uuids>>

AssignFileToFolder(filename, folder_id, size) ==
    LET r == assign_file_to_folder(folders, files, filename, folder_id, size, now) IN
    /\ files' = r.files
    /\ last' = Call("assign_file_to_folder", "", folder_id, None, filename, size, r.result)
    /\ UNCHANGED <<folders, uuids>>

RemoveFileMetadata(filename) ==
    LET r == remove_file_metadata(files, filename) IN
    /\ files' = r.files
    /\ last' = Call("remove_file_metadata", "", None, None, filename, 0, r.result)
    /\ UNCHANGED <<folders, uuids>>

ListFolderContents(folder_id) ==
    LET r == list_folder_contents(folders, files, folder_id) IN
    /\ last' = [Call("list_folder_contents", "", folder_id, None, "", 0, r.result)
                    EXCEPT !.listing = r.listing]
    /\ UNCHANGED <<folders, files, uuids>>

GetFolderInfo(folder_id) ==
    LET r == get_folder_info(folders, files, folder_id) IN
    /\ last' = [Call("get_folder_info", "", folder_id, None, "", 0, r.result)
                    EXCEPT !.info = r.info]
    /\ UNCHANGED <<folders, files, uuids>>

GetFileFolder(filename) ==
    /\ last' = [Call("get_file_folder", "", None, None, filename, 0, Ok)
                    EXCEPT !.file_folder = get_file_folder(files, filename)]
    /\ UNCHANGED <<folders, files, uuids>>

GetFilesInFolder(folder_id) ==
    /\ last' = [Call("get_files_in_folder", "", folder_id, None, "", 0, Ok)
                    EXCEPT !.filenames = get_files_in_folder(files, folder_id)]
    /\ UNCHANGED <<folders, files, uuids>>

Init == StoreInit /\ ConcIdle /\ AuthInit /\ LimitInit /\ calls = 0 /\ ReferenceInit

Next ==
    \/ \E name \in Names, parent_id \in OptIds : CreateFolder(name, parent_id) /\ UNCHANGED <<concVars, authVars, limitVars, calls, reference>>
    \/ \E folder_id \in Ids : DeleteFolder(folder_id) /\ UNCHANGED <<concVars, authVars, limitVars, calls, reference>>
    \/ \E folder_id \in Ids, new_parent_id \in OptIds :
            MoveFolder(folder_id, new_parent_id) /\ UNCHANGED <<concVars, authVars, limitVars, calls, reference>>
    \/ \E filename \in SeqFileNames, folder_id \in OptIds, size \in SeqSizes :
            AssignFileToFolder(filename, folder_id, size) /\ UNCHANGED <<concVars, authVars, limitVars, calls, reference>>
    \/ \E filename \in SeqFileNames : RemoveFileMetadata(filename) /\ UNCHANGED <<concVars, authVars, limitVars, calls, reference>>

vars == <<folders, files, uuids, last, req, started, base, batch, torn,
          blacklist, issued, jtis, now, ticks, revoked, rotated, lastAuth,
          limiters, seen, checks, reqs, lastReq, calls, reference>>

Spec == Init /\ [][Next]_vars

\* ------------------- SpecFiles: calls run to completion, with files and time
\* one more FolderManager call
Called ==
    /\ calls < MaxCalls
    /\ calls' = calls + 1
    /\ UNCHANGED <<concVars, authVars, limitVars, reference>>

NextFiles ==
    \/ \E name \in Names, parent_id \in OptIds : CreateFolder(name, parent_id) /\ Called
    \/ \E folder_id \in Ids : DeleteFolder(folder_id) /\ Called
    \/ \E folder_id \in Ids, new_parent_id \in OptIds :
            MoveFolder(folder_id, new_parent_id) /\ Called
    \/ \E filename \in FileNames, folder_id \in OptIds, size \in Sizes :
            AssignFileToFolder(filename, folder_id, size) /\ Called
    \/ \E filename \in FileNames : RemoveFileMetadata(filename) /\ Called
    \/ \E folder_id \in OptIds : ListFolderContents(folder_id) /\ Called
    \/ \E folder_id \in Ids : GetFolderInfo(folder_id) /\ Called
    \/ \E filename \in FileNames : GetFileFolder(filename) /\ Called
    \/ \E folder_id \in OptIds : GetFilesInFolder(folder_id) /\ Called
    \/ \E d \in {1} : Tick(d) /\ UNCHANGED <<storeVars, concVars, limitVars, calls, reference>>

SpecFiles == Init /\ [][NextFiles]_vars

\* ------------------------------------- SpecConc: calls interleaved at file I/O
\* Every handler builds its own FolderManager (handlers/folders.rs) and runs
\* the call on a blocking thread; nothing orders two calls. A call is a
\* read of each table it loads, then its checks on the loaded copies and,
\* when they pass, one whole-table write.
InFlight(p) == req[p].pc \in {"load_folders", "load_files", "finish", "write_all", "hung"}
Quiescent == \A p \in Procs : ~InFlight(p)

\* the first file-system access of each call
FirstStep(op) ==
    IF op \in {"remove_file_metadata", "get_file_folder", "get_files_in_folder"}
    THEN "load_files" ELSE "load_folders"
\* what follows load_folder_metadata in each call
AfterLoadFolders(op) ==
    IF op \in {"delete_folder", "assign_file_to_folder", "list_folder_contents",
               "get_folder_info"}
    THEN "load_files" ELSE "finish"

Start(p, op, name, folder_id, parent_id, filename, size) ==
    /\ ~InFlight(p)
    /\ started < MaxReqs
    /\ started' = started + 1
    /\ req' = [q \in Procs |->
                 IF q = p
                 THEN [pc |-> FirstStep(op), seq |-> started + 1, op |-> op, name |-> name,
                       folder_id |-> folder_id, parent_id |-> parent_id,
                       filename |-> filename, size |-> size, token |-> NoHeader,
                       folder_metadata |-> EmptyMap, file_metadata |-> EmptyMap,
                       result |-> Ok, overlap |-> {r \in Procs \ {p} : InFlight(r)}]
                 ELSE [req[q] EXCEPT !.overlap = @ \ {p}]]
    /\ base' = IF Quiescent THEN [folders |-> folders, files |-> files] ELSE base
    /\ batch' = IF Quiescent THEN {} ELSE batch
    /\ UNCHANGED <<storeVars, authVars, limitVars, calls, reference, torn>>

StartCreateFolder(p) ==
    \E name \in Names, parent_id \in OptIds :
        Start(p, "create_folder", name, None, parent_id, "", 0)
StartDeleteFolder(p) ==
    \E folder_id \in Ids : Start(p, "delete_folder", "", folder_id, None, "", 0)
StartMoveFolder(p) ==
    \E folder_id \in Ids, new_parent_id \in OptIds :
        Start(p, "move_folder", "", folder_id, new_parent_id, "", 0)
StartAssignFileToFolder(p) ==
    \E filename \in FileNames, folder_id \in OptIds, size \in SeqSizes :
        Start(p, "assign_file_to_folder", "", folder_id, None, filename, size)
StartRemoveFileMetadata(p) ==
    \E filename \in FileNames : Start(p, "remove_file_metadata", "", None, None, filename, 0)

\* the request as the batch remembers it
Done(r, folder_id) ==
    [seq |-> r.seq, op |-> r.op, name |-> r.name, folder_id |-> folder_id,
     parent_id |-> r.parent_id, filename |-> r.filename, size |-> r.size]

\* the rest of a call after its loads: the checks, then the write
Return(p, result, folder_id) ==
    /\ req' = [req EXCEPT ![p].pc = IF result = Diverges THEN "hung" ELSE "done",
                           ![p].result = result, ![p].folder_id = folder_id]
    /\ batch' = IF result = Ok THEN batch \cup {Done(req[p], folder_id)} ELSE batch
    /\ UNCHANGED <<started, base, last, authVars, limitVars, calls, reference>>

\* load_folder_metadata: fs::read_to_string, then serde_json::from_str, which
\* fails on the empty or cut-off text of a file that is being written
LoadFolderMetadata(p) ==
    /\ req[p].pc = "load_folders"
    /\ IF "folders" \in torn
       THEN /\ Return(p, Internal("Failed to parse folder metadata"), req[p].folder_id)
            /\ UNCHANGED <<folders, files, uuids, torn>>
       ELSE /\ req' = [req EXCEPT ![p].folder_metadata = folders,
                                  ![p].pc = AfterLoadFolders(req[p].op)]
            /\ UNCHANGED <<storeVars, authVars, limitVars, calls, reference, started, base, batch, torn>>

LoadFileMetadata(p) ==
    /\ req[p].pc = "load_files"
    /\ IF "files" \in torn
       THEN /\ Return(p, Internal("Failed to parse file metadata"), req[p].folder_id)
            /\ UNCHANGED <<folders, files, uuids, torn>>
       ELSE /\ req' = [req EXCEPT ![p].file_metadata = files, ![p].pc = "finish"]
            /\ UNCHANGED <<storeVars, authVars, limitVars, calls, reference, started, base, batch, torn>>

FinishCreateFolder(p) ==
    LET r == create_folder(req[p].folder_metadata, req[p].name, req[p].parent_id, uuids + 1, now) IN
    /\ req[p].pc = "finish" /\ req[p].op = "create_folder"
    /\ r.write => uuids < MaxIds
    /\ folders' = IF r.write THEN r.folders ELSE folders
    /\ uuids' = IF r.write THEN uuids + 1 ELSE uuids
    /\ Return(p, r.result, IF r.write THEN uuids + 1 ELSE None)
    /\ UNCHANGED <<files, torn>>

FinishDeleteFolder(p) ==
    LET r == delete_folder(req[p].folder_metadata, req[p].file_metadata, req[p].folder_id) IN
    /\ req[p].pc = "finish" /\ req[p].op = "delete_folder"
    /\ folders' = IF r.write THEN r.folders ELSE folders
    /\ Return(p, r.result, req[p].folder_id)
    /\ UNCHANGED <<files, uuids, torn>>

FinishMoveFolder(p) ==
    LET r == move_folder(req[p].folder_metadata, req[p].folder_id, req[p].parent_id) IN
    /\ req[p].pc = "finish" /\ req[p].op = "move_folder"
    /\ folders' = IF r.write THEN r.folders ELSE folders
    /\ Return(p, r.result, req[p].folder_id)
    /\ UNCHANGED <<files, uuids, torn>>

FinishAssignFileToFolder(p) ==
    LET r == assign_file_to_folder(req[p].folder_metadata, req[p].file_metadata,
                                   req[p].filename, req[p].folder_id, req[p].size, now) IN
    /\ req[p].pc = "finish" /\ req[p].op = "assign_file_to_folder"
    /\ files' = IF r.write THEN r.files ELSE files
    /\ Return(p, r.result, req[p].folder_id)
    /\ UNCHANGED <<folders, uuids, torn>>

FinishRemoveFileMetadata(p) ==
    LET r == remove_file_metadata(req[p].file_metadata, req[p].filename) IN
    /\ req[p].pc = "finish" /\ req[p].op = "remove_file_metadata"
    /\ files' = IF r.write THEN r.files ELSE files
    /\ Return(p, r.result, req[p].folder_id)
    /\ UNCHANGED <<folders, uuids, torn>>

NextConc ==
    \E p \in Procs :
        \/ StartCreateFolder(p)
        \/ StartDeleteFolder(p)
        \/ StartMoveFolder(p)
        \/ StartAssignFileToFolder(p)
        \/ StartRemoveFileMetadata(p)
        \/ LoadFolderMetadata(p)
        \/ LoadFileMetadata(p)
        \/ FinishCreateFolder(p)
        \/ FinishDeleteFolder(p)
        \/ FinishMoveFolder(p)
        \/ FinishAssignFileToFolder(p)
        \/ FinishRemoveFileMetadata(p)

SpecConc == Init /\ [][NextConc]_vars

\* ------------------------- SpecMoves: move_folder calls interleaved at file I/O
\* Sibling folders are made at the root before the first request;
\* move_folder requests then run as in SpecConc, one load and one
\* whole-table write each.
NextMoves ==
    \/ \E name \in Names, parent_id \in {None} :
            /\ started = 0
            /\ CreateFolder(name, parent_id)
            /\ UNCHANGED <<concVars, authVars, limitVars, calls, reference>>
    \/ \E p \in Procs : StartMoveFolder(p)
    \/ \E p \in Procs : LoadFolderMetadata(p)
    \/ \E p \in Procs : FinishMoveFolder(p)

SpecMoves == Init /\ [][NextMoves]_vars

\* ------------------- SpecRotate: refresh requests interleaved at the lock
\* The JwtService is made once and shared by the workers (main.rs:58, 104).
\* refresh_token takes the blacklist's lock in validate_token, gives it back,
\* and takes it again in blacklist_token; nothing holds it in between, so
\* the handler on another worker thread can run between the two.
\* validate_token and the token-type check of refresh_token
ValidateRefreshToken(p, token) ==
    LET token_data == validate_token(token, blacklist, now)
        valid == token_data.kind = "Ok" /\ token_data.claims.token_type = "refresh"
    IN /\ req[p].pc # "validated"
       /\ started < MaxReqs
       /\ started' = started + 1
       /\ req' = [req EXCEPT ![p] =
                    [IdleReq EXCEPT !.pc = IF valid THEN "validated" ELSE "done",
                                    !.seq = started + 1,
                                    !.op = "refresh_token",
                                    !.token = token,
                                    !.result = IF valid THEN Ok
                                               ELSE [kind |-> "Unauthorized",
                                                     msg |-> token_data.msg]]]
       /\ lastAuth' = IF valid THEN lastAuth
                      ELSE AuthCall("refresh_token", "", token, 401, FALSE, NoHeader, NoHeader)
       /\ UNCHANGED <<blacklist, issued, jtis, now, ticks, revoked, rotated>>
       /\ UNCHANGED <<storeVars, limitVars, calls, reference, base, batch, torn>>

\* blacklist_token, then the new access + refresh pair and the response
BlacklistAndIssue(p) ==
    LET token == req[p].token
        sub == token.claims.sub
    IN /\ req[p].pc = "validated"
       /\ blacklist' = blacklist_token(blacklist, token)
       /\ revoked' = revoked \cup {token}
       /\ rotated' = rotated \cup {token}
       /\ IssuePairUpTo(sub, MaxRotateTokens)
       /\ req' = [req EXCEPT ![p].pc = "done"]
       /\ lastAuth' = AuthCall("refresh_token", sub, token, 200, FALSE,
                               create_access_token(sub, now, jtis + 1),
                               create_refresh_token(sub, now, jtis + 2))
       /\ UNCHANGED <<now, ticks>>
       /\ UNCHANGED <<storeVars, limitVars, calls, reference, started, base, batch, torn>>

NextRotate ==
    \/ \E password \in Passwords :
            Login(AdminUsername, password) /\ UNCHANGED <<storeVars, concVars, limitVars, calls, reference>>
    \/ \E p \in Procs, token \in issued : ValidateRefreshToken(p, token)
    \/ \E p \in Procs : BlacklistAndIssue(p)

SpecRotate == Init /\ [][NextRotate]_vars

\* ------------------------------- SpecIO: reads beside a write, at the file level
\* save_*_metadata is fs::write: the file is opened with truncation and the
\* new text is then written into it; there is no temporary file and no
\* rename. Between the two steps the file is empty or cut off.
ReadOps == {"list_folder_contents", "get_folder_info", "get_file_folder",
            "get_files_in_folder"}

StartListFolderContents(p) ==
    \E folder_id \in OptIds : Start(p, "list_folder_contents", "", folder_id, None, "", 0)
StartGetFolderInfo(p) ==
    \E folder_id \in Ids : Start(p, "get_folder_info", "", folder_id, None, "", 0)
StartGetFileFolder(p) ==
    \E filename \in SeqFileNames : Start(p, "get_file_folder", "", None, None, filename, 0)
StartGetFilesInFolder(p) ==
    \E folder_id \in OptIds : Start(p, "get_files_in_folder", "", folder_id, None, "", 0)
StartAssignFile(p) ==
    \E filename \in SeqFileNames, folder_id \in OptIds, size \in SeqSizes :
        Start(p, "assign_file_to_folder", "", folder_id, None, filename, size)

\* the checks of create_folder, then the opening of the folder file by
\* fs::write, which truncates it
TruncateFolderMetadata(p) ==
    LET r == create_folder(req[p].folder_metadata, req[p].name, req[p].parent_id, uuids + 1, now) IN
    /\ req[p].pc = "finish" /\ req[p].op = "create_folder"
    /\ r.write => uuids < MaxIds
    /\ IF r.write
       THEN /\ torn' = torn \cup {"folders"}
            /\ uuids' = uuids + 1
            /\ req' = [req EXCEPT ![p].pc = "write_all", ![p].folder_metadata = r.folders,
                                  ![p].folder_id = uuids + 1]
            /\ UNCHANGED <<folders, files, last, started, base, batch, authVars, limitVars, calls, reference>>
       ELSE /\ Return(p, r.result, None)
            /\ UNCHANGED <<folders, files, uuids, torn>>

\* the same for assign_file_to_folder and the file table
TruncateFileMetadata(p) ==
    LET r == assign_file_to_folder(req[p].folder_metadata, req[p].file_metadata,
                                   req[p].filename, req[p].folder_id, req[p].size, now) IN
    /\ req[p].pc = "finish" /\ req[p].op = "assign_file_to_folder"
    /\ IF r.write
       THEN /\ torn' = torn \cup {"files"}
            /\ req' = [req EXCEPT ![p].pc = "write_all", ![p].file_metadata = r.files]
            /\ UNCHANGED <<storeVars, started, base, batch, authVars, limitVars, calls, reference>>
       ELSE /\ Return(p, r.result, req[p].folder_id)
            /\ UNCHANGED <<folders, files, uuids, torn>>

\* write_all: the whole new text is in the file
WriteAll(p) ==
    /\ req[p].pc = "write_all"
    /\ IF req[p].op = "create_folder"
       THEN /\ folders' = req[p].folder_metadata
            /\ torn' = torn \ {"folders"}
            /\ UNCHANGED files
       ELSE /\ files' = req[p].file_metadata
            /\ torn' = torn \ {"files"}
            /\ UNCHANGED folders
    /\ Return(p, Ok, req[p].folder_id)
    /\ UNCHANGED uuids

\* what a read call answers from the tables it loaded
ReadResult(r) ==
    CASE r.op = "list_folder_contents" ->
            list_folder_contents(r.folder_metadata, r.file_metadata, r.folder_id).result
      [] r.op = "get_folder_info" ->
            get_folder_info(r.folder_metadata, r.file_metadata, r.folder_id).result
      [] OTHER -> Ok

FinishRead(p) ==
    /\ req[p].pc = "finish" /\ req[p].op \in ReadOps
    /\ Return(p, ReadResult(req[p]), req[p].folder_id)
    /\ UNCHANGED <<folders, files, uuids, torn>>

NextIO ==
    \E p \in Procs :
        \/ StartCreateFolder(p)
        \/ StartAssignFile(p)
        \/ StartListFolderContents(p)
        \/ StartGetFolderInfo(p)
        \/ StartGetFileFolder(p)
        \/ StartGetFilesInFolder(p)
        \/ LoadFolderMetadata(p)
        \/ LoadFileMetadata(p)
        \/ TruncateFolderMetadata(p)
        \/ TruncateFileMetadata(p)
        \/ WriteAll(p)
        \/ FinishRead(p)

SpecIO == Init /\ [][NextIO]_vars

SpecAuth == Init /\ [][NextAuth]_vars

SpecRevoke == Init /\ [][NextRevoke]_vars

SpecLimit == Init /\ [][NextLimit]_vars

SpecWeb == Init /\ [][NextWeb]_vars

SpecRoute == Init /\ [][NextRoute]_vars

\* ------------------------- SpecLimitConfig: the static server, any configuration
\* AppConfig::load reads each rule's enabled flag from the environment; the
\* server starts with the limiters RateLimitMiddleware::new makes for it.
InitLimitConfig ==
    /\ StoreInit /\ ConcIdle /\ AuthInit /\ calls = 0 /\ ReferenceInit
    /\ \E config \in RateLimitConfigs : limiters = [w \in Workers |-> new(config)]
    /\ seen = EmptyMap
    /\ checks = 0
    /\ reqs = 0
    /\ lastReq = NoReq

NextLimitConfig ==
    \/ \E worker \in Workers, client_ip \in WebClients,
          path \in {LoginPath, FoldersPath, UploadsPath, HealthPath} :
            StaticRequest(worker, path, client_ip)
    \/ \E d \in {6} : Tick(d) /\ UNCHANGED <<storeVars, concVars, limitVars, calls, reference>>

SpecLimitConfig == InitLimitConfig /\ [][NextLimitConfig]_vars

\* ------------------------------- SpecClient: the client address of any request
\* the pieces of a forwarding header's value, and the values of up to
\* MaxHeaderLen pieces
HeaderPieces == {"10.0.0.1", "10.0.0.2", "unknown", ",", " "}
HeaderValues == UNION {[1..n -> HeaderPieces] : n \in 0..MaxHeaderLen}
XForwardedFors == {Absent} \cup {Present(value) : value \in HeaderValues}
XRealIps ==
    {Absent, Present(<<"10.0.0.2">>), Present(<<"10.0.0.3">>), Present(<<"unknown">>),
     Present(<<" ", "10.0.0.2">>)}
\* the server listens on 0.0.0.0: the peer has an IPv4 address, which
\* peer_addr() gives with or without its port
PeerAddrs == {Absent, Present(<<"10.0.0.3">>), Present(<<"10.0.0.3", ":", "54321">>)}

\* get_client_ip, the first step of the limiter check in
\* RateLimitService::call. It reads the request and nothing a request
\* leaves behind, so a run is one request.
GetClientIp(x_forwarded_for, x_real_ip, peer_addr) ==
    /\ lastReq = NoReq
    /\ lastReq' = [NoReq EXCEPT !.server = "client",
                                !.x_forwarded_for = x_forwarded_for,
                                !.x_real_ip = x_real_ip,
                                !.peer_addr = peer_addr,
                                !.client_ip = get_client_ip(x_forwarded_for, x_real_ip, peer_addr)]
    /\ UNCHANGED <<storeVars, concVars, authVars, limiters, seen, checks, reqs, calls, reference>>

NextClient ==
    \E x_forwarded_for \in XForwardedFors, x_real_ip \in XRealIps, peer_addr \in PeerAddrs :
        GetClientIp(x_forwarded_for, x_real_ip, peer_addr)

SpecClient == Init /\ [][NextClient]_vars

\* --------------------- SpecGuard: the web server's handlers that change the store
\* AppError::error_response: the status of a handler's result
FileNotFound(m) == [kind |-> "FileNotFound", msg |-> m]
error_response(result) ==
    CASE result.kind = "Ok" -> 200
      [] result.kind \in {"NotFound", "FileNotFound"} -> 404
      [] result.kind = "BadRequest" -> 400
      [] OTHER -> 500

\* handlers::upload::upload_file, as far as the store goes: the folder is
\* looked up with list_folder_contents, the file is saved under a name no
\* stored file has (generate_unique_filename) and assigned to the folder.
\* The file is one of an allowed type.
upload_file(filename, folder_id, size) ==
    /\ filename \notin DOMAIN files
    /\ IF folder_id # None /\ list_folder_contents(folders, files, folder_id).result # Ok
       THEN /\ last' = Call("upload_file", "", folder_id, None, filename, size,
                            NotFound("Folder with id not found"))
            /\ UNCHANGED <<folders, files, uuids>>
       ELSE AssignFileToFolder(filename, folder_id, size)

\* handlers::files::delete_file: the file is looked for in the upload
\* directory, deleted there, and its record is removed. With requests run
\* one at a time the directory holds the files that have a record: upload_file
\* writes both, delete_file removes both. No stored name starts with another,
\* so find_file_by_stem finds nothing that file_exists does not.
delete_file(filename) ==
    IF filename \in DOMAIN files
    THEN RemoveFileMetadata(filename)
    ELSE /\ last' = Call("delete_file", "", None, None, filename, 0, FileNotFound(filename))
         /\ UNCHANGED <<folders, files, uuids>>

WebUpload(worker, client_ip, header, filename, folder_id, size) ==
    WebRequest(worker, ApiUploadPath, header, client_ip,
               upload_file(filename, folder_id, size) /\ UNCHANGED authVars,
               error_response(last'.result))

WebDeleteFile(worker, client_ip, header, filename) ==
    WebRequest(worker, FilePath(filename), header, client_ip,
               delete_file(filename) /\ UNCHANGED authVars,
               error_response(last'.result))

\* POST /api/folders
WebCreateFolder(worker, client_ip, header, name, parent_id) ==
    WebRequest(worker, FoldersPath, header, client_ip,
               CreateFolder(name, parent_id) /\ UNCHANGED authVars,
               error_response(last'.result))

NextGuard ==
    \/ \E client_ip \in WebClients, password \in Passwords :
            WebLogin(1, client_ip, AdminUsername, password)
    \/ \E client_ip \in WebClients, header \in Headers, filename \in GuardFileNames,
          folder_id \in {None, 1}, size \in SeqSizes :
            WebUpload(1, client_ip, header, filename, folder_id, size)
    \/ \E client_ip \in WebClients, header \in Headers, filename \in GuardFileNames :
            WebDeleteFile(1, client_ip, header, filename)
    \/ \E client_ip \in WebClients, header \in Headers, name \in {"Invoices"} :
            WebCreateFolder(1, client_ip, header, name, None)

SpecGuard == Init /\ [][NextGuard]_vars

\* ------------------------------------- SpecAnyTable: calls on any folder table
\* load_folder_metadata takes whatever table the file holds. Every table
\* over the ids, each folder stored under its own id: parent_id may name
\* the folder itself, a folder that is not there, or close a cycle.
AnyTables ==
    UNION {{[f \in S |-> FolderMetadata(f, name[f], parent_id[f], 0)] :
                name \in [S -> Names], parent_id \in [S -> OptIds]} : S \in SUBSET Ids}

InitAnyTable ==
    /\ folders \in AnyTables
    /\ files = EmptyMap
    /\ uuids = MaxIds
    /\ last = NoCall
    /\ ConcIdle /\ AuthInit /\ LimitInit /\ calls = 0 /\ ReferenceInit

NextAnyTable ==
    \/ \E folder_id \in Ids, new_parent_id \in OptIds :
            MoveFolder(folder_id, new_parent_id) /\ UNCHANGED <<concVars, authVars, limitVars, calls, reference>>
    \/ \E folder_id \in OptIds :
            ListFolderContents(folder_id) /\ UNCHANGED <<concVars, authVars, limitVars, calls, reference>>

SpecAnyTable == InitAnyTable /\ [][NextAnyTable]_vars

\* ======================================================== the store's claims
\* a folder table has a cycle when some non-empty set of folders is closed
\* under parent_id
Cyclic(fm) ==
    \E S \in SUBSET DOMAIN fm : S # {} /\ \A f \in S : fm[f].parent_id \in S

\* p is f or lies below f: f is among p, parent(p), parent(parent(p)), ...
SelfOrDescendant(fm, p, f) ==
    LET Up[n \in 0..Cardinality(DOMAIN fm)] ==
            IF n = 0 THEN {p}
            ELSE Up[n - 1] \cup {fm[x].parent_id : x \in Up[n - 1] \cap DOMAIN fm}
    IN f \in Up[Cardinality(DOMAIN fm)]

\* another folder with the name of f has parent p
NameTaken(fm, f, p) ==
    \E e \in DOMAIN fm \ {f} : fm[e].name = fm[f].name /\ fm[e].parent_id = p

\* a file or a folder refers to f
Referenced(fm, flm, f) ==
    \/ \E fn \in DOMAIN flm : flm[fn].folder_id = f
    \/ \E g \in DOMAIN fm : fm[g].parent_id = f

\* C1: after any sequence of create_folder, move_folder and delete_folder
\* calls, each run to completion, from the empty store, no folder is
\* reachable from itself along parent_id.
C1_NoCycle == ~Cyclic(folders)

\* a move has just put a folder below a non-root folder: a chain of three
C1_Witness ==
    /\ last.op = "move_folder" /\ last.result = Ok
    /\ last.parent_id # None
    /\ folders[last.parent_id].parent_id # None

\* C2: for existing f and p, move_folder(f, p) fails with the
\* InvalidOperation kind exactly when p is f or a descendant of f; otherwise
\* it succeeds whenever no other folder named like f has parent p, and then
\* f.parent_id = p.
C2_MoveFolderInvalidOperation ==
    (/\ last.op = "move_folder"
     /\ last.folder_id \in DOMAIN last.pre_folders
     /\ last.parent_id \in {None} \cup DOMAIN last.pre_folders)
    => LET f == last.folder_id
           p == last.parent_id
           cyc == p # None /\ SelfOrDescendant(last.pre_folders, p, f)
       IN /\ (last.result.kind = "InvalidOperation") <=> cyc
          /\ (~cyc /\ ~NameTaken(last.pre_folders, f, p))
                => (last.result = Ok /\ folders[f].parent_id = p)

\* C6: for an existing folder f, delete_folder(f) fails with Conflict
\* (AppError::BadRequest in the code) exactly when a file has folder_id f or
\* a folder has parent_id f; otherwise it succeeds and f is gone.
C6_DeleteFolder ==
    (last.op = "delete_folder" /\ last.folder_id \in DOMAIN last.pre_folders)
    => LET f == last.folder_id
           ref == Referenced(last.pre_folders, last.pre_files, f)
       IN /\ (last.result.kind = "BadRequest") <=> ref
          /\ ref => folders = last.pre_folders
          /\ ~ref => (last.result = Ok /\ folders = Remove(last.pre_folders, f))

\* delete_folder was refused for a folder whose only reference is a file
C6_Witness ==
    /\ last.op = "delete_folder"
    /\ last.result = BadRequest("Cannot delete folder: folder contains files")
    /\ \A g \in DOMAIN folders : folders[g].parent_id # last.folder_id

\* C7: while a folder named name with parent parent_id exists, create_folder
\* with that (name, parent_id) fails with Conflict (AppError::BadRequest)
\* and adds no folder.
C7_DuplicateCreate ==
    (/\ last.op = "create_folder"
     /\ \E g \in DOMAIN last.pre_folders :
            /\ last.pre_folders[g].name = last.name
            /\ last.pre_folders[g].parent_id = last.parent_id)
    => (last.result.kind = "BadRequest" /\ folders = last.pre_folders)

\* the second of two identical create_folder calls below a folder
C7_Witness ==
    /\ last.op = "create_folder" /\ last.result.kind = "BadRequest"
    /\ last.parent_id # None

\* C8: in every state reached by create_folder, move_folder and
\* delete_folder calls run one after the other, no two folders have the
\* same parent_id and the same name.
C8_SiblingNamesUnique ==
    \A f, g \in DOMAIN folders :
        (f # g /\ folders[f].parent_id = folders[g].parent_id)
            => folders[f].name # folders[g].name

\* a move was refused because the destination holds the name, and two
\* folders of one name exist under different parents
C8_Witness ==
    /\ last.op = "move_folder"
    /\ last.result = BadRequest("Folder already exists in target location")
    /\ \E f, g \in DOMAIN folders : f # g /\ folders[f].name = folders[g].name

\* ------------------------------------------------------- concurrent requests
\* C3: in every state reached by interleaved assign_file_to_folder,
\* delete_folder and remove_file_metadata requests, every file whose
\* folder_id is set refers to a folder of the folder table.
FileFoldersExist(t) ==
    \A fn \in DOMAIN t.files : t.files[fn].folder_id \in {None} \cup DOMAIN t.folders

FileRaceOps == {"assign_file_to_folder", "delete_folder", "remove_file_metadata"}

\* the requests running together since the tables were last at rest are
\* all of the three operations, and the tables at rest were sound
OnlyFileRaceOps ==
    /\ FileFoldersExist(base)
    /\ \A d \in batch : d.op \in FileRaceOps
    /\ \A p \in Procs : InFlight(p) => req[p].op \in FileRaceOps

C3_FileFolderExists ==
    OnlyFileRaceOps => FileFoldersExist([folders |-> folders, files |-> files])

\* the requests of workers p and q ran at the same time
Concurrent(p, q) == q \in req[p].overlap \/ p \in req[q].overlap

\* C4: of two create_folder requests with the same (name, parent_id) that
\* run concurrently, at most one succeeds (no delete or move of either
\* created folder came between them).
C4_OneCreateSucceeds ==
    \A p, q \in Procs :
        (/\ p # q /\ Concurrent(p, q)
         /\ req[p].op = "create_folder" /\ req[q].op = "create_folder"
         /\ req[p].pc = "done" /\ req[q].pc = "done"
         /\ req[p].name = req[q].name /\ req[p].parent_id = req[q].parent_id
         /\ ~\E d \in batch : /\ d.op \in {"delete_folder", "move_folder"}
                              /\ d.folder_id \in {req[p].folder_id, req[q].folder_id})
        => ~(req[p].result = Ok /\ req[q].result = Ok)

\* one request of the batch applied, as a whole, to the tables t
Effect(d, t) ==
    CASE d.op = "create_folder" ->
            [t EXCEPT !.folders = create_folder(t.folders, d.name, d.parent_id, d.folder_id, now).folders]
      [] d.op = "delete_folder" ->
            [t EXCEPT !.folders = delete_folder(t.folders, t.files, d.folder_id).folders]
      [] d.op = "move_folder" ->
            [t EXCEPT !.folders = move_folder(t.folders, d.folder_id, d.parent_id).folders]
      [] d.op = "assign_file_to_folder" ->
            [t EXCEPT !.files = assign_file_to_folder(t.folders, t.files, d.filename,
                                                      d.folder_id, d.size, now).files]
      [] d.op = "remove_file_metadata" ->
            [t EXCEPT !.files = remove_file_metadata(t.files, d.filename).files]
      [] OTHER -> t

\* the tables that the requests in S can leave when run one after another
RECURSIVE Serial(_, _)
Serial(S, t) ==
    IF S = {} THEN {t}
    ELSE UNION {Serial(S \ {d}, Effect(d, t)) : d \in S}

\* C5: mutating operations are atomic with respect to each other: when the
\* requests that ran together have all returned, the tables are what the
\* successful ones give in some serial order, so no successful update is
\* lost.
C5_Serializable ==
    Quiescent => [folders |-> folders, files |-> files] \in Serial(batch, base)

\* ==================================================== the JWT service's claims
\* the subject a login or a refresh issued its pair for
IssuedFor == IF lastAuth.op = "login" THEN lastAuth.username ELSE lastAuth.token.claims.sub

\* C9: a token validates right after it is issued, with the subject it was
\* issued for and the type tag of its kind; once blacklist_token has been
\* called on a token, every later validation of it, by any request, fails
\* with Unauthorized.
C9_IssueValidateRevoke ==
    /\ (lastAuth.op \in {"login", "refresh_token"} /\ lastAuth.status = 200)
        => LET a == validate_token(lastAuth.access_token, blacklist, now)
               r == validate_token(lastAuth.refresh_token, blacklist, now)
           IN /\ a.kind = "Ok" /\ r.kind = "Ok"
              /\ a.claims.sub = IssuedFor /\ r.claims.sub = IssuedFor
              /\ a.claims.token_type = "access" /\ r.claims.token_type = "refresh"
    /\ \A t \in revoked : validate_token(t, blacklist, now).kind = "Unauthorized"
    /\ (lastAuth.op = "verify_token" /\ lastAuth.token \in revoked) => ~lastAuth.valid
    /\ (lastAuth.op = "refresh_token" /\ lastAuth.token \in lastAuth.pre_blacklist)
        => lastAuth.status = 401

\* verify was asked about an access token that logout had revoked and that
\* is otherwise still good
C9_Witness ==
    /\ lastAuth.op = "verify_token"
    /\ lastAuth.token \in revoked
    /\ lastAuth.token.claims.token_type = "access"
    /\ decode(lastAuth.token, Secret, now).kind = "Ok"

\* C10: after a successful refresh the old refresh token no longer
\* validates, and a later refresh request that presents it gets
\* Unauthorized and no tokens.
C10_RotationInvalidatesOld ==
    /\ \A t \in rotated : validate_token(t, blacklist, now).kind = "Unauthorized"
    /\ (lastAuth.op = "refresh_token" /\ lastAuth.token \in lastAuth.pre_rotated)
        => (lastAuth.status = 401 /\ issued = lastAuth.pre_issued
            /\ lastAuth.access_token = NoHeader /\ lastAuth.refresh_token = NoHeader)

\* a second refresh presented a rotated refresh token that is otherwise
\* still good
C10_Witness ==
    /\ lastAuth.op = "refresh_token"
    /\ lastAuth.token \in lastAuth.pre_rotated
    /\ decode(lastAuth.token, Secret, now).kind = "Ok"

\* C11: validate_token fails with Unauthorized whenever the token is in the
\* revocation set, or its signature does not verify under the service's
\* secret, or the current time is later than the token's expiry, and it
\* succeeds only when none of the three holds.
C11_ValidateFailsExactly ==
    \A t \in Presentable :
        LET revoked_t == t \in blacklist
            bad_signature == t.sig # Secret
            expired == now > t.claims.exp
        IN (validate_token(t, blacklist, now).kind = "Unauthorized")
                <=> (revoked_t \/ bad_signature \/ expired)

\* the token is, before the request, a good token of the given type
GoodToken(token, type) ==
    LET token_data == validate_token(token, lastAuth.pre_blacklist, now)
    IN token_data.kind = "Ok" /\ token_data.claims.token_type = type

\* C12: token types are never interchangeable: refresh_token answers a valid
\* access token with Unauthorized, revoking nothing and issuing nothing; the
\* authentication middleware answers a valid refresh token on a protected
\* route with 401; verify_token reports valid = false for a valid refresh
\* token.
C12_TypesNotInterchangeable ==
    /\ (lastAuth.op = "refresh_token" /\ GoodToken(lastAuth.token, "access"))
        => /\ lastAuth.status = 401
           /\ blacklist = lastAuth.pre_blacklist
           /\ issued = lastAuth.pre_issued
           /\ lastAuth.access_token = NoHeader /\ lastAuth.refresh_token = NoHeader
    /\ (lastAuth.op = "protected" /\ GoodToken(lastAuth.token, "refresh"))
        => lastAuth.status = 401
    /\ (lastAuth.op = "verify_token" /\ GoodToken(lastAuth.token, "refresh"))
        => ~lastAuth.valid

\* a protected route was asked for with a good refresh token as the bearer
C12_Witness ==
    /\ lastAuth.op = "protected"
    /\ GoodToken(lastAuth.token, "refresh")
    /\ lastAuth.status = 401

\* ================================================ the rate limiter's claims
\* C13: for a (route type, client) key never seen before, counting every
\* request for the key: of the requests arriving at the instant of the
\* first, exactly burst_size are admitted and the next is rejected;
\* afterwards admissions come no faster than requests_per_minute / 60 per
\* second.
C13_BurstThenRate ==
    /\ \A key \in DOMAIN seen :
        LET quota == Quota(key[1])
        IN seen[key].admitted * quota.replenish_1_per
              <= quota.max_burst * quota.replenish_1_per + (now - seen[key].first) * 1000
    /\ (lastReq.limiter = "reject"
        /\ seen[<<RouteType[lastReq.path], lastReq.client_ip>>].first = now)
        => seen[<<RouteType[lastReq.path], lastReq.client_ip>>].admitted
              = Quota(RouteType[lastReq.path]).max_burst

\* C14: on the web server the limiter check comes before token validation,
\* which comes before the handler: a request the limiter rejects is never
\* passed to authentication, and a request that fails authentication on a
\* route that needs it has already been counted against its bucket.
C14_LimiterBeforeAuth ==
    lastReq.server = "web"
        => /\ lastReq.limiter = "reject" => lastReq.auth = "not_reached"
           /\ lastReq.auth = "reject" => lastReq.limiter = "admit"
           /\ lastReq.handler => (lastReq.limiter # "reject" /\ lastReq.auth # "reject")

\* C18: what a client gets from logout is the same success result whether
\* its token is absent, malformed, expired, revoked or valid; what it gets
\* from verify is always a boolean result, valid = true only for a valid
\* access token, and never an error (requests the limiter turned away
\* aside).
C18_LogoutVerifyUniform ==
    (lastReq.server = "web" /\ lastReq.limiter # "reject")
        => /\ lastReq.path = LogoutPath => (lastReq.handler /\ lastReq.status = 200)
           /\ lastReq.path = VerifyPath
                => /\ lastReq.handler /\ lastReq.status = 200
                   /\ lastAuth.valid <=> GoodToken(BearerToken(lastReq.header), "access")

\* ================================================ the store's calls, one by one
\* C19: create_folder with a parent_id that is not in the folder table
\* fails with NotFound; when it succeeds it adds exactly one folder, with
\* the given name and parent_id and an id no folder of the table has, and
\* returns a summary with zero file count, folder count and size.
C19_CreateFolder ==
    last.op = "create_folder"
    => /\ (last.parent_id # None /\ last.parent_id \notin DOMAIN last.pre_folders)
            => (last.result.kind = "NotFound" /\ folders = last.pre_folders)
       /\ last.result = Ok
            => \E id \in DOMAIN folders \ DOMAIN last.pre_folders :
                    /\ folders = Insert(last.pre_folders, id,
                                        FolderMetadata(id, last.name, last.parent_id, last.at))
                    /\ last.info = FolderInfo(id, last.name, last.parent_id, 0, 0, 0)

\* create_folder was asked for a parent that had been deleted
C19_Witness ==
    /\ last.op = "create_folder"
    /\ last.result.kind = "NotFound"
    /\ last.parent_id \in 1..uuids

\* C20: move_folder fails with NotFound when folder_id is not in the folder
\* table, or when new_parent_id is given and is not in it, whatever the
\* circular-reference and name checks would have said.
C20_MoveFolderNotFound ==
    (/\ last.op = "move_folder"
     /\ \/ last.folder_id \notin DOMAIN last.pre_folders
        \/ last.parent_id # None /\ last.parent_id \notin DOMAIN last.pre_folders)
    => (last.result.kind = "NotFound" /\ folders = last.pre_folders)

\* a folder that does not exist was moved into itself
C20_Witness ==
    /\ last.op = "move_folder"
    /\ last.folder_id \notin DOMAIN last.pre_folders
    /\ last.parent_id = last.folder_id
    /\ last.result.kind = "NotFound"

\* C16: move_folder terminates on every folder table, also on one whose
\* parent_id links hold a cycle or a self-reference that does not pass
\* through the folder being moved.
C16_MoveFolderTerminates == last.op = "move_folder" => last.result # Diverges

\* C17: list_folder_contents terminates on every folder table, also on one
\* where the ancestor chain of the requested folder holds a cycle or a
\* self-reference.
C17_ListFolderContentsTerminates ==
    last.op = "list_folder_contents" => last.result # Diverges

\* C15: a read call (list_folder_contents, get_files_in_folder,
\* get_file_folder, get_folder_info) that runs beside a mutating call never
\* meets a partly written table: it works on the whole table from before
\* the write or from after it, and it does not fail.
C15_ReadsSeeWholeTables ==
    \A p \in Procs :
        (req[p].op \in ReadOps /\ req[p].pc = "done")
            => req[p].result.kind # "Internal"

\* C21: the name check of move_folder leaves out the folder being moved:
\* moving a folder to the parent it already has succeeds and leaves the
\* folder table as it was, while moving it to a parent that has another
\* child of its name fails with Conflict (AppError::BadRequest), the table
\* unchanged.
C21_MoveFolderNameCheck ==
    (/\ last.op = "move_folder"
     /\ last.folder_id \in DOMAIN last.pre_folders
     /\ last.parent_id \in {None} \cup DOMAIN last.pre_folders)
    => LET f == last.folder_id
           p == last.parent_id
           cyc == p # None /\ SelfOrDescendant(last.pre_folders, p, f)
       IN /\ p = last.pre_folders[f].parent_id
                => (last.result = Ok /\ folders = last.pre_folders)
          /\ NameTaken(last.pre_folders, f, p)
                => /\ last.result.kind = "BadRequest"
                   /\ folders = last.pre_folders
                   /\ ~cyc => last.result = BadRequest("Folder already exists in target location")

\* a folder below another folder was moved to the parent it already had
C21_Witness ==
    /\ last.op = "move_folder" /\ last.result = Ok
    /\ last.folder_id \in DOMAIN last.pre_folders
    /\ last.parent_id # None
    /\ last.parent_id = last.pre_folders[last.folder_id].parent_id

\* C22: assign_file_to_folder with a folder_id that is given and is not in
\* the folder table fails with NotFound, and a record the file table has for
\* the filename keeps its folder_id and its size.
C22_AssignToMissingFolder ==
    (/\ last.op = "assign_file_to_folder"
     /\ last.folder_id # None
     /\ last.folder_id \notin DOMAIN last.pre_folders)
    => /\ last.result.kind = "NotFound"
       /\ DOMAIN files = DOMAIN last.pre_files
       /\ last.filename \in DOMAIN last.pre_files
            => /\ files[last.filename].folder_id = last.pre_files[last.filename].folder_id
               /\ files[last.filename].size = last.pre_files[last.filename].size

\* a file that has a record was assigned to a folder that is not there
C22_Witness ==
    /\ last.op = "assign_file_to_folder"
    /\ last.folder_id # None
    /\ last.folder_id \notin DOMAIN last.pre_folders
    /\ last.filename \in DOMAIN last.pre_files
    /\ last.result.kind = "NotFound"

\* ================================================ the store's files and reads
\* C23: assign_file_to_folder is an upsert keyed by filename: after a
\* successful assignment the file table holds one record for the filename,
\* with the folder_id and size of this assignment and the time of the call
\* as uploaded_at, which is not earlier than the uploaded_at it replaces;
\* the records of other filenames are as before, and only remove_file_metadata
\* takes a record away. So after any sequence of successful assignments
\* each assigned filename has exactly the record of its latest assignment.
C23_AssignIsUpsert ==
    /\ \A fn \in DOMAIN files : files[fn].filename = fn /\ files[fn].uploaded_at <= now
    /\ (last.op = "assign_file_to_folder" /\ last.result = Ok)
        => /\ files = Insert(last.pre_files, last.filename,
                             FileMetadata(last.filename, last.folder_id, last.at, last.size))
           /\ last.filename \in DOMAIN last.pre_files
                => last.pre_files[last.filename].uploaded_at <= files[last.filename].uploaded_at
    /\ last.op \notin {"none", "assign_file_to_folder", "remove_file_metadata"}
        => files = last.pre_files

\* a file was assigned again, later, to another folder and with another
\* size, while the table holds another file
C23_Witness ==
    /\ last.op = "assign_file_to_folder" /\ last.result = Ok
    /\ last.filename \in DOMAIN last.pre_files
    /\ last.pre_files[last.filename].uploaded_at < last.at
    /\ last.pre_files[last.filename].folder_id # last.folder_id
    /\ last.pre_files[last.filename].size # last.size
    /\ DOMAIN files # {last.filename}

\* C24: remove_file_metadata is idempotent: for a filename without a record
\* it succeeds and leaves the file table as it was, and a second call right
\* after the first leaves the table the first one left.
C24_RemoveIsIdempotent ==
    last.op = "remove_file_metadata"
    => /\ last.result = Ok
       /\ files = Remove(last.pre_files, last.filename)
       /\ last.filename \notin DOMAIN last.pre_files => files = last.pre_files
       /\ remove_file_metadata(files, last.filename).result = Ok
       /\ remove_file_metadata(files, last.filename).files = files

\* the record of a file that has none was removed from a table that holds
\* another file
C24_Witness ==
    /\ last.op = "remove_file_metadata" /\ last.result = Ok
    /\ last.filename \notin DOMAIN last.pre_files
    /\ last.pre_files # EmptyMap

\* name a is not after name b in the byte-wise (case-sensitive) order
NameLeq(a, b) ==
    LET x == Bytes(a)
        y == Bytes(b)
    IN \/ Len(x) <= Len(y) /\ \A i \in 1..Len(x) : x[i] = y[i]
       \/ \E i \in 1..Len(x) :
            /\ i <= Len(y)
            /\ x[i] < y[i]
            /\ \A j \in 1..(i - 1) : x[j] = y[j]

\* the folder the summary describes, as the table has it
Describes(fm, info) ==
    /\ info.id \in DOMAIN fm
    /\ info.name = fm[info.id].name
    /\ info.parent_id = fm[info.id].parent_id

\* C25: list_folder_contents(folder_id) fails with NotFound when folder_id
\* is given and is not in the folder table; otherwise its folders list holds
\* exactly the folders whose parent_id is folder_id (the root-level folders
\* for None), each once, in ascending case-sensitive name order, and
\* current_folder is the summary of folder_id (absent for None).
C25_ListFolderContents ==
    last.op = "list_folder_contents"
    => IF last.folder_id # None /\ last.folder_id \notin DOMAIN folders
       THEN last.result.kind = "NotFound"
       ELSE LET listed == last.listing.folders
                children == {g \in DOMAIN folders : folders[g].parent_id = last.folder_id}
            IN /\ last.result = Ok
               /\ {listed[i].id : i \in 1..Len(listed)} = children
               /\ Len(listed) = Cardinality(children)
               /\ \A i \in 1..Len(listed) : Describes(folders, listed[i])
               /\ \A i, j \in 1..Len(listed) :
                    i < j => NameLeq(listed[i].name, listed[j].name)
               /\ IF last.folder_id = None
                  THEN last.listing.current_folder = NoInfo
                  ELSE /\ last.listing.current_folder.id = last.folder_id
                       /\ Describes(folders, last.listing.current_folder)

\* the folders of a folder were listed, and the one created later comes
\* first because its name starts with a capital letter
C25_Witness ==
    /\ last.op = "list_folder_contents" /\ last.result = Ok
    /\ last.folder_id # None
    /\ Len(last.listing.folders) = 2
    /\ last.listing.folders[1].name = "Invoices"
    /\ last.listing.folders[1].id > last.listing.folders[2].id

\* every parent_id is None or a folder of the table, and no folder is its
\* own ancestor
WellFormed(fm) ==
    /\ \A f \in DOMAIN fm : fm[f].parent_id \in {None} \cup DOMAIN fm
    /\ ~Cyclic(fm)

\* C26: for a folder f of a well-formed table, the breadcrumbs of
\* list_folder_contents(f) are the path from the root to f: the first has
\* parent_id None, each is the parent of the next, the last is f, and no
\* folder comes twice; for folder_id None the breadcrumbs are empty.
C26_Breadcrumbs ==
    (last.op = "list_folder_contents" /\ WellFormed(folders))
    => LET b == last.listing.breadcrumbs
       IN /\ last.folder_id = None => (last.result = Ok /\ b = <<>>)
          /\ last.folder_id \in DOMAIN folders
                => /\ last.result = Ok
                   /\ Len(b) >= 1
                   /\ b[1].parent_id = None
                   /\ \A i \in 1..(Len(b) - 1) : b[i + 1].parent_id = b[i].id
                   /\ b[Len(b)].id = last.folder_id
                   /\ \A i \in 1..Len(b) : Describes(folders, b[i])
                   /\ \A i, j \in 1..Len(b) : i # j => b[i].id # b[j].id

\* the breadcrumbs of a folder two levels below the root
C26_Witness ==
    /\ last.op = "list_folder_contents" /\ last.result = Ok
    /\ WellFormed(folders)
    /\ last.folder_id \in DOMAIN folders
    /\ Len(last.listing.breadcrumbs) = 3

\* the summaries the last call returned
Summaries ==
    CASE last.op = "list_folder_contents" /\ last.result = Ok ->
            {last.listing.folders[i] : i \in 1..Len(last.listing.folders)}
                \cup {last.listing.breadcrumbs[i] : i \in 1..Len(last.listing.breadcrumbs)}
                \cup (IF last.folder_id = None THEN {} ELSE {last.listing.current_folder})
      [] last.op = "get_folder_info" /\ last.result = Ok -> {last.info}
      [] OTHER -> {}

\* the files directly in folder f that have size z
DirectFiles(f, z) == {fn \in DOMAIN files : files[fn].folder_id = f /\ files[fn].size = z}

RECURSIVE DirectSize(_, _)
DirectSize(f, zs) ==
    IF zs = {} THEN 0
    ELSE LET z == CHOOSE x \in zs : TRUE
         IN z * Cardinality(DirectFiles(f, z)) + DirectSize(f, zs \ {z})

\* C27: every summary a read returns is of the tables as they are at the
\* read and is direct-only: file_count is the number of files whose
\* folder_id is the folder, folder_count the number of folders whose
\* parent_id is the folder, size the sum of the sizes of those files; what
\* lies in subfolders adds nothing.
C27_SummariesAreDirect ==
    \A s \in Summaries :
        /\ Describes(folders, s)
        /\ s.file_count = Cardinality({fn \in DOMAIN files : files[fn].folder_id = s.id})
        /\ s.folder_count = Cardinality({g \in DOMAIN folders : folders[g].parent_id = s.id})
        /\ s.size = DirectSize(s.id, Sizes)

\* get_folder_info of a folder without files whose subfolder holds a file
C27_Witness ==
    /\ last.op = "get_folder_info" /\ last.result = Ok
    /\ last.info.file_count = 0 /\ last.info.size = 0 /\ last.info.folder_count = 1
    /\ \E g \in DOMAIN folders :
            /\ folders[g].parent_id = last.folder_id
            /\ \E fn \in DOMAIN files : files[fn].folder_id = g /\ files[fn].size > 0

\* C28: get_files_in_folder(folder_id) returns exactly the filenames of the
\* records whose folder_id is the argument, None being the root (the records
\* with no folder); get_file_folder(filename) returns the folder_id of the
\* filename's record, or None when there is no record or the file is at the
\* root; neither changes a table.
C28_FileLookups ==
    /\ last.op = "get_files_in_folder"
        => /\ last.result = Ok
           /\ last.filenames = {fn \in DOMAIN files : files[fn].folder_id = last.folder_id}
           /\ folders = last.pre_folders /\ files = last.pre_files
    /\ last.op = "get_file_folder"
        => /\ last.result = Ok
           /\ last.file_folder = IF last.filename \in DOMAIN files
                                 THEN files[last.filename].folder_id ELSE None
           /\ folders = last.pre_folders /\ files = last.pre_files

\* ================================================ the limiter's configuration
\* C29: the route type of a path is "no limiting" whenever the path starts
\* with a prefix of the disabled-route list, whatever class it would fall
\* in otherwise; otherwise it is exactly one class, decided in this order:
\* a path with prefix /uploads is static, one with prefix /upload is upload,
\* any other path that mentions login or auth is auth, everything else is
\* upload.
C29_RouteType ==
    lastReq.server = "route"
    => LET path == lastReq.path
           uploads == StartsWith(path, <<"/", "upload", "s">>)
           upload == StartsWith(path, <<"/", "upload">>)
           mentions == Contains(path, "login") \/ Contains(path, "auth")
       IN IF \E prefix \in RateLimitDisabledRoutes : StartsWith(path, prefix)
          THEN lastReq.route_type = "none"
          ELSE /\ lastReq.route_type \in RouteTypes
               /\ uploads => lastReq.route_type = "static"
               /\ (upload /\ ~uploads) => lastReq.route_type = "upload"
               /\ (~upload /\ mentions) => lastReq.route_type = "auth"
               /\ (~upload /\ ~mentions) => lastReq.route_type = "upload"

\* a path below a disabled prefix that mentions auth, and so is not limited
C29_Witness ==
    /\ lastReq.server = "route"
    /\ StartsWith(lastReq.path, <<"/", "health">>)
    /\ Contains(lastReq.path, "auth")
    /\ lastReq.route_type = "none"

\* the path starts with a prefix of the rate limiter's disabled-route list
RateLimitDisabled(path) == \E prefix \in RateLimitDisabledRoutes : StartsWith(path, prefix)

\* C30: a request is always admitted, and no bucket is made or used for it,
\* when its path starts with a rate-limit-disabled prefix or the rule of its
\* route type has enabled = false; a server with some rule disabled decides
\* the requests of the other route types as a server with every rule
\* enabled does, on buckets that are the same.
C30_DisabledNotLimited ==
    /\ [](lastReq.server = "static"
            => /\ (\/ RateLimitDisabled(lastReq.path)
                   \/ lastReq.route_type \notin DOMAIN limiters[lastReq.worker])
                    => (lastReq.limiter = "none" /\ lastReq.handler /\ lastReq.status = 200)
               /\ lastReq.route_type \in DOMAIN limiters[lastReq.worker]
                    => lastReq.limiter = lastReq.all_enabled)
    /\ [](\A w \in Workers : \A route_type \in DOMAIN limiters[w] :
            limiters[w][route_type] = reference[w][route_type])
    /\ [][lastReq'.limiter = "none" => limiters' = limiters]_vars

\* with the auth rule disabled, a login request was admitted that a server
\* with the rule enabled turns away, the upload rule being enabled
C30_Witness ==
    /\ lastReq.server = "static"
    /\ lastReq.route_type = "auth"
    /\ "auth" \notin DOMAIN limiters[lastReq.worker]
    /\ "upload" \in DOMAIN limiters[lastReq.worker]
    /\ lastReq.all_enabled = "reject"
    /\ lastReq.handler

\* ================================================ the limiter's client address
\* the addresses a header value lists, in order: its words that are addresses
RECURSIVE AddressesListed(_)
AddressesListed(value) ==
    IF value = <<>> THEN <<>>
    ELSE (IF Head(value) \in IpAddrs THEN <<Head(value)>> ELSE <<>>)
            \o AddressesListed(Tail(value))

RECURSIVE Entries(_)
Entries(value) ==
    IF \A i \in 1..Len(value) : value[i] # ","
    THEN <<value>>
    ELSE LET i == CHOOSE k \in 1..Len(value) :
                    value[k] = "," /\ \A j \in 1..(k - 1) : value[j] # ","
         IN <<SubSeq(value, 1, i - 1)>> \o Entries(SubSeq(value, i + 1, Len(value)))

\* the text is one address with nothing but blanks around it
IsAddressAmongBlanks(text, ip) ==
    /\ \E i \in 1..Len(text) : text[i] = ip
    /\ Cardinality({i \in 1..Len(text) : text[i] # " "}) = 1

\* the source of the client address that comes first among the usable ones:
\* X-Forwarded-For when its first entry is an address (blanks around it
\* aside), X-Real-IP when its value is exactly an address, the peer address
\* when there is one
Usable ==
    LET xff == lastReq.x_forwarded_for
        real == lastReq.x_real_ip
        peer == lastReq.peer_addr
    IN [x_forwarded_for |->
            xff.present /\ \E ip \in IpAddrs : IsAddressAmongBlanks(Entries(xff.value)[1], ip),
        x_real_ip |-> real.present /\ \E ip \in IpAddrs : real.value = <<ip>>,
        peer_addr |-> peer.present /\ Len(peer.value) >= 1 /\ peer.value[1] \in IpAddrs]

C32_BucketCapacity ==
    /\ [](\A key \in DOMAIN seen : seen[key].together <= Quota(key[1]).max_burst)
    /\ [][lastReq'.limiter = "reject" => limiters' = limiters]_vars

\* ================================================ revocation by itself
\* C33: blacklist_token is idempotent and never fails on an invalid token:
\* it returns success for a token that is malformed, expired, wrongly
\* signed or already in the set; after it the set is the set before with
\* the token added, so a second call for the same token leaves the set as
\* the first call left it.
C33_RevokeIsIdempotent ==
    lastAuth.op = "blacklist_token"
    => /\ lastAuth.status = 200
       /\ blacklist = lastAuth.pre_blacklist \cup {lastAuth.token}
       /\ lastAuth.token \in lastAuth.pre_blacklist => blacklist = lastAuth.pre_blacklist
       /\ blacklist_token(blacklist, lastAuth.token) = blacklist

\* blacklist_token was called a second time on an issued token that has
\* expired since, beside a wrongly signed token revoked earlier
C33_Witness ==
    /\ lastAuth.op = "blacklist_token"
    /\ lastAuth.token \in issued
    /\ lastAuth.token \in lastAuth.pre_blacklist
    /\ decode(lastAuth.token, Secret, now).kind = "Unauthorized"
    /\ \E t \in blacklist : t.sig # Secret

\* ================================================ who reaches the store
\* the handlers of these paths change the store or the stored files
MutatingPaths == {ApiUploadPath, FoldersPath} \cup {FilePath(filename) : filename \in GuardFileNames}

\* the request carried a valid access token that is not revoked, or the
\* admin's Basic credentials
Authenticated(header) ==
    \/ /\ header.scheme = "Bearer"
       /\ validate_token(header.token, blacklist, now).kind = "Ok"
       /\ header.token.claims.token_type = "access"
    \/ /\ header.scheme = "Basic"
       /\ header.username = AdminUsername /\ header.password = AdminPassword

\* C34: in protected mode a request reaches a handler that changes the
\* store or the stored files only if it carried a valid, unrevoked access
\* token or the admin's Basic credentials, or its path is in the list of
\* routes configured as exempt from authentication; nothing else about the
\* path, such as the suffix of a file name, lets it through.
C34_MutationsNeedAuth ==
    (lastReq.server = "web" /\ lastReq.handler /\ lastReq.path \in MutatingPaths)
        => (Authenticated(lastReq.header) \/ is_auth_disabled(lastReq.path))

\* ================================================ requests at the same time
\* C35: a refresh token gives at most one successful rotation under any
\* interleaving: of two refresh requests that present the same refresh
\* token, at most one is answered with a new access + refresh pair.
C35_OneRotation ==
    \A p, q \in Procs :
        (/\ p # q
         /\ req[p].op = "refresh_token" /\ req[q].op = "refresh_token"
         /\ req[p].pc = "done" /\ req[q].pc = "done"
         /\ req[p].token = req[q].token)
        => ~(req[p].result = Ok /\ req[q].result = Ok)

\* C36: two move_folder requests that run at the same time, such as
\* move_folder(A, B) and move_folder(B, A) on sibling folders A and B, leave
\* a folder table without a cycle: they do not both pass the
\* circular-reference check on the table they loaded and both save.
C36_ConcurrentMovesNoCycle ==
    \A p, q \in Procs :
        (/\ p # q /\ Concurrent(p, q)
         /\ req[p].op = "move_folder" /\ req[q].op = "move_folder"
         /\ req[p].pc = "done" /\ req[q].pc = "done")
        => /\ ~Cyclic(folders)
           /\ (/\ req[p].result = Ok /\ req[q].result = Ok
               /\ req[p].folder_metadata = req[q].folder_metadata)
                => ~Cyclic([req[p].folder_metadata EXCEPT
                               ![req[p].folder_id].parent_id = req[p].parent_id,
                               ![req[q].folder_id].parent_id = req[q].parent_id])

\* ============================================ the tables after a run of calls
\* C37: after any run of create_folder, move_folder and delete_folder calls
\* made one after another, every folder whose parent_id is set names a
\* folder that is in the folder table: no folder has a dangling parent.
C37_NoDanglingParent ==
    \A f \in DOMAIN folders :
        folders[f].parent_id # None => folders[f].parent_id \in DOMAIN folders

\* a folder was created and deleted, and a move has just put a folder under
\* another one
C37_Witness ==
    /\ last.op = "move_folder" /\ last.result = Ok /\ last.parent_id # None
    /\ Cardinality(DOMAIN folders) < uuids
    /\ folders[last.folder_id].parent_id = last.parent_id

\* the error kinds a FolderManager call returns for a request it refuses:
\* NotFound, and BadRequest for a name conflict, a folder that is not empty
\* and a circular move alike
RefusalKinds == {"NotFound", "BadRequest"}

\* C38: every call that returns NotFound, or the error of a conflict or of
\* an invalid operation, leaves the folder table and the file table exactly
\* as they were before the call: all checks come before the first write.
C38_ErrorsLeaveTablesUnchanged ==
    last.result.kind \in RefusalKinds
        => (folders = last.pre_folders /\ files = last.pre_files)

\* delete_folder has just refused a folder that holds a file
C38_Witness ==
    /\ last.op = "delete_folder"
    /\ last.result = BadRequest("Cannot delete folder: folder contains files")
    /\ last.folder_id \in DOMAIN folders
    /\ \E fn \in DOMAIN files : files[fn].folder_id = last.folder_id

\* C39: a successful move_folder(id, p) changes only the parent_id of folder
\* id, which becomes p: the set of folder ids, every folder's id, name and
\* created_at, the parent_id of every other folder (the subtree of the
\* moved folder goes with it) and the whole file table stay as they were.
C39_MoveFolderFrame ==
    (last.op = "move_folder" /\ last.result = Ok)
    => /\ DOMAIN folders = DOMAIN last.pre_folders
       /\ \A g \in DOMAIN folders :
            /\ folders[g].id = last.pre_folders[g].id
            /\ folders[g].name = last.pre_folders[g].name
            /\ folders[g].created_at = last.pre_folders[g].created_at
            /\ folders[g].parent_id = IF g = last.folder_id THEN last.parent_id
                                      ELSE last.pre_folders[g].parent_id
       /\ files = last.pre_files

\* a folder that has a subfolder was moved to another parent, some time
\* after it was created
C39_Witness ==
    /\ last.op = "move_folder" /\ last.result = Ok
    /\ last.pre_folders[last.folder_id].parent_id # last.parent_id
    /\ \E g \in DOMAIN folders : folders[g].parent_id = last.folder_id
    /\ folders[last.folder_id].created_at < last.at

\* ================================================ what a revocation touches
\* C40: a revocation affects only the token presented: after
\* blacklist_token(t), a logout with t or a rotation that revokes refresh
\* token t, every other issued token validates exactly as it did before;
\* among them the refresh token of the login that gave a logged-out access
\* token, and the access tokens issued before a rotation.
C40_RevocationIsLocal ==
    lastAuth.op \in {"blacklist_token", "logout", "refresh_token"}
    => \A u \in lastAuth.pre_issued \ {lastAuth.token} :
            validate_token(u, blacklist, now)
                = validate_token(u, lastAuth.pre_blacklist, now)

\* a logout has just revoked an access token, and the refresh token of the
\* same login still validates
C40_Witness ==
    /\ lastAuth.op = "logout"
    /\ lastAuth.token \in blacklist \ lastAuth.pre_blacklist
    /\ lastAuth.token.claims.token_type = "access"
    /\ \E u \in lastAuth.pre_issued :
            /\ u.claims.token_type = "refresh"
            /\ u.claims.sub = lastAuth.token.claims.sub
            /\ u.claims.iat = lastAuth.token.claims.iat
            /\ u.claims.jti = lastAuth.token.claims.jti + 1
            /\ validate_token(u, blacklist, now).kind = "Ok"

====
